---- MODULE Spec2Model ----
(***************************************************************************)
(* Reward distribution and ledger accounting of the tonvera staking pool.  *)
(*                                                                         *)
(* The model follows server/firestoreManager.ts: distributeRewards,        *)
(* distributeUserRewardWithPremium, processReferralBonus and               *)
(* updateUserPremiumStatus, over the Firestore collections `users` and     *)
(* `transactions` and the document pool/main (the collection `referrals`   *)
(* of firebaseStorage.ts is never written by them).  Every `await` of a store    *)
(* call is one step, so concurrent runs interleave between store calls     *)
(* exactly where the event loop lets them.                                 *)
(*                                                                         *)
(* Stored amounts are the 9-digit decimal strings written by toFixed(9),   *)
(* held as integers of nano-TON.  The JavaScript numbers between two store *)
(* writes are IEEE 754 doubles, computed with the rounding of every        *)
(* operation.                                                              *)
(***************************************************************************)
EXTENDS Integers, FiniteSets, Sequences, Bags, TLC

(***************************************************************************)
(* Bounds of the model.                                                    *)
(***************************************************************************)
MaxRuns == 2
MaxTime == 2
MaxFaults == 1
MaxRegs == 2
MaxWithdrawals == 1
MaxRequests == 2
MaxUnlocks == 2
MaxJobs == 3
MaxTriggers == 2
MaxRetries == 3
MaxSeqno == 2
TicksPerDay == 2

(***************************************************************************)
(* Program constants.                                                      *)
(***************************************************************************)
StandardApyPerMille == 87
PremiumApyPerMille == 105
DaysPerYear == 365
CommissionPercent == 12
ReferralPercent == 10

\* document ids of the accounts, in the order of their ids
UserIds == <<"u1", "u2", "u3">>
Users == {UserIds[i] : i \in 1..Len(UserIds)}
NoUser == "none"
\* null / undefined of premiumExpiresAt and lastRewardDistribution
NoTime == 0 - 1
Runs == 1..MaxRuns
\* referral registration requests
Regs == 1..MaxRegs
\* withdrawals beside the reward runs
Withdrawals == 1..MaxWithdrawals
\* concurrent requests of POST /withdraw
Requests == 1..MaxRequests
\* requests of POST /premium/unlock
Unlocks == 1..MaxUnlocks

(***************************************************************************)
(* Natural numbers of any size, as little-endian sequences of limbs below  *)
(* Base with no leading zero limb: the 53-bit significands of JavaScript   *)
(* numbers and their products do not fit a machine integer.                *)
(***************************************************************************)
Base == 2^15

RECURSIVE Bits(_)
Bits(n) == IF n = 0 THEN 0 ELSE 1 + Bits(n \div 2)

LimbBits == Bits(Base) - 1

RECURSIVE BNat(_)
BNat(n) == IF n = 0 THEN <<>> ELSE <<n % Base>> \o BNat(n \div Base)

RECURSIVE BInt(_)
BInt(a) == IF a = <<>> THEN 0 ELSE a[1] + Base * BInt(Tail(a))

RECURSIVE BTrim(_)
BTrim(a) ==
    IF a # <<>> /\ a[Len(a)] = 0 THEN BTrim(SubSeq(a, 1, Len(a) - 1)) ELSE a

Limb(a) == IF a = <<>> THEN 0 ELSE a[1]
Rest(a) == IF a = <<>> THEN <<>> ELSE Tail(a)

RECURSIVE BAddC(_, _, _)
BAddC(a, b, c) ==
    IF a = <<>> /\ b = <<>>
    THEN IF c = 0 THEN <<>> ELSE <<c>>
    ELSE LET x == Limb(a) + Limb(b) + c
         IN  <<x % Base>> \o BAddC(Rest(a), Rest(b), x \div Base)

BAdd(a, b) ==
    IF a = <<>> THEN b ELSE IF b = <<>> THEN a ELSE BAddC(a, b, 0)

\* a - b for a >= b
RECURSIVE BSubB(_, _, _)
BSubB(a, b, c) ==
    IF a = <<>> THEN <<>>
    ELSE LET x == a[1] - Limb(b) - c
         IN  <<IF x < 0 THEN x + Base ELSE x>>
               \o BSubB(Tail(a), Rest(b), IF x < 0 THEN 1 ELSE 0)

BSub(a, b) ==
    IF b = <<>> THEN a ELSE IF a = b THEN <<>> ELSE BTrim(BSubB(a, b, 0))

RECURSIVE BCmpFrom(_, _, _)
BCmpFrom(a, b, i) ==
    IF i = 0 THEN 0
    ELSE IF a[i] # b[i] THEN (IF a[i] < b[i] THEN 0 - 1 ELSE 1)
    ELSE BCmpFrom(a, b, i - 1)

\* -1, 0 or 1 as a is below, equal to or above b
BCmp(a, b) ==
    IF Len(a) # Len(b) THEN (IF Len(a) < Len(b) THEN 0 - 1 ELSE 1)
    ELSE BCmpFrom(a, b, Len(a))

\* a * k for 0 < k < Base
RECURSIVE BMulSmallC(_, _, _)
BMulSmallC(a, k, c) ==
    IF a = <<>>
    THEN IF c = 0 THEN <<>> ELSE <<c>>
    ELSE LET x == a[1] * k + c
         IN  <<x % Base>> \o BMulSmallC(Tail(a), k, x \div Base)

BMulSmall(a, k) ==
    IF a = <<>> \/ k = 0 THEN <<>> ELSE IF k = 1 THEN a ELSE BMulSmallC(a, k, 0)

ShiftLimbs(a, n) == IF a = <<>> THEN <<>> ELSE [i \in 1..n |-> 0] \o a

DropLimbs(a, n) == IF n >= Len(a) THEN <<>> ELSE SubSeq(a, n + 1, Len(a))

RECURSIVE BMul(_, _)
BMul(a, b) ==
    IF a = <<>> \/ b = <<>> THEN <<>>
    ELSE BAdd(BMulSmall(a, b[1]), ShiftLimbs(BMul(a, Tail(b)), 1))

\* Long division of a by k, 0 < k < Base, from the top limb down with the
\* remainder r of the limbs above i: the limbs of the quotient, the top one
\* first, then the remainder.
RECURSIVE BDivFrom(_, _, _, _)
BDivFrom(a, k, i, r) ==
    IF i = 0 THEN <<r>>
    ELSE <<(r * Base + a[i]) \div k>> \o BDivFrom(a, k, i - 1, (r * Base + a[i]) % k)

\* quotient and remainder of a by k
BDivSmall(a, k) ==
    LET d == BDivFrom(a, k, Len(a), 0)
    IN  [q |-> BTrim([i \in 1..Len(a) |-> d[Len(a) + 1 - i]]), r |-> d[Len(a) + 1]]

Min(i, j) == IF i < j THEN i ELSE j

LimbAt(a, i) == IF i >= 1 /\ i <= Len(a) THEN a[i] ELSE 0

\* A limb of the quotient of r by b, for r < b * Base and a divisor whose
\* top limb is at least Base / 2: the estimate from the two top limbs of r
\* and the top limb of b, lowered until its product with b fits in r.
QuotEstimate(r, b) ==
    Min(Base - 1, (LimbAt(r, Len(b) + 1) * Base + LimbAt(r, Len(b))) \div b[Len(b)])

RECURSIVE QuotLimb(_, _, _)
QuotLimb(r, b, qhat) ==
    IF BCmp(BMulSmall(b, qhat), r) > 0 THEN QuotLimb(r, b, qhat - 1) ELSE qhat

\* The element of a one-element set: Only({e : x \in {v}}) is e with x
\* standing for the value of v, which is computed once.
Only(S) == CHOOSE x \in S : TRUE

\* one limb q of the quotient of r1 by b, and the remainder
DivStep(r1, b) ==
    Only({ [q |-> q, r |-> BSub(r1, BMulSmall(b, q))] :
             q \in {QuotLimb(r1, b, QuotEstimate(r1, b))} })

\* Long division of a by b from the top limb down, with the remainder r of
\* the limbs above i: the limbs of the quotient, the top one first, then
\* the remainder.
RECURSIVE BDivLimbs(_, _, _, _)
BDivLimbs(a, b, i, r) ==
    IF i = 0 THEN <<r>>
    ELSE Only({ <<p.q>> \o BDivLimbs(a, b, i - 1, p.r) :
                  p \in {DivStep(BTrim(<<a[i]>> \o r), b)} })

BDivResult(d, n) == [q |-> BTrim([i \in 1..n |-> d[n + 1 - i]]), r |-> d[n + 1]]

\* quotient and remainder of a by b, b with a top limb of at least Base / 2
BDiv(a, b) == BDivResult(BDivLimbs(a, b, Len(a), <<>>), Len(a))


\* a * 2^n: every limb takes the low bits of its own shift and the high
\* bits of the limb below
BShl(a, n) ==
    LET s == n % LimbBits
    IN  ShiftLimbs(BTrim([i \in 1..(Len(a) + 1) |->
                             ((LimbAt(a, i) * 2^s) % Base)
                               + (LimbAt(a, i - 1) \div 2^(LimbBits - s))]),
                   n \div LimbBits)

\* floor(a / 2^n)
BShr(a, n) ==
    LET s == n % LimbBits
        d == DropLimbs(a, n \div LimbBits)
    IN  BTrim([i \in 1..Len(d) |->
                  (d[i] \div 2^s) + (LimbAt(d, i + 1) % 2^s) * 2^(LimbBits - s)])

\* a mod 2^n
BLow(a, n) ==
    LET k == n \div LimbBits
    IN  IF Len(a) <= k THEN a
        ELSE BTrim(SubSeq(a, 1, k) \o <<a[k + 1] % 2^(n % LimbBits)>>)

BitLen(a) == IF a = <<>> THEN 0 ELSE LimbBits * (Len(a) - 1) + Bits(a[Len(a)])

\* the shift that brings the top limb of b to at least Base / 2
Normalise(b) == (LimbBits - (BitLen(b) % LimbBits)) % LimbBits

BOdd(a) == a # <<>> /\ a[1] % 2 = 1

\* floor(a / 10^k), and whether a division left a remainder: by three
\* digits at a time
RECURSIVE BDivPow10(_, _)
BDivPow10(a, k) ==
    LET p == BDivPow10(a, k - 3)
        d == BDivSmall(IF k <= 3 THEN a ELSE p.q, 10^(IF k <= 3 THEN k ELSE 3))
    IN  IF k <= 3 THEN [q |-> d.q, sticky |-> d.r # 0]
        ELSE IF p.q = <<>> THEN p
        ELSE [q |-> d.q, sticky |-> p.sticky \/ d.r # 0]

(***************************************************************************)
(* JavaScript numbers: IEEE 754 doubles.  A number is m * 2^e with a       *)
(* significand m of exactly MantissaBits bits, or Zero; every operation    *)
(* rounds the exact result to the nearest such number, ties to the even    *)
(* significand.  The numbers of this program are non-negative and far from *)
(* the subnormal and the overflow range.                                   *)
(***************************************************************************)
MantissaBits == 53

Zero == [m |-> <<>>, e |-> 0]

\* the significand q1 of at most MantissaBits + 1 bits, at exponent e
Carry(q1, e) ==
    IF BitLen(q1) > MantissaBits THEN [m |-> BShr(q1, 1), e |-> e + 1]
    ELSE [m |-> q1, e |-> e]

\* q, or q + 1 when the bits cut off compare (c) above the half, or to the
\* half with bits below them (sticky) or an odd q
RoundUp(q, c, sticky) ==
    IF c > 0 \/ (c = 0 /\ (sticky \/ BOdd(q))) THEN BAdd(q, <<1>>) ELSE q

\* n * 2^e rounded by cutting the lowest cut bits of n
RoundAt(n, e, sticky, cut) ==
    IF cut <= 0 THEN [m |-> BShl(n, 0 - cut), e |-> e + cut]
    ELSE Carry(RoundUp(BShr(n, cut), BCmp(BLow(n, cut), BShl(<<1>>, cut - 1)), sticky),
               e + cut)

\* The number nearest to n * 2^e, or, when sticky, to a value between
\* n * 2^e and (n + 1) * 2^e (n then has more than MantissaBits + 1 bits).
Round(n, e, sticky) ==
    IF n = <<>> THEN Zero ELSE RoundAt(n, e, sticky, BitLen(n) - MantissaBits)

\* The numbers that are not finite.  No significand stands for them: they
\* are told from Zero by the exponent field.
Infinity == [m |-> <<>>, e |-> 1]
NaN == [m |-> <<>>, e |-> 2]
IsFinite(x) == x # Infinity /\ x # NaN

\* x + y
FAdd(x, y) ==
    LET e == Min(x.e, y.e)
    IN  IF x = NaN \/ y = NaN THEN NaN
        ELSE IF x = Infinity \/ y = Infinity THEN Infinity
        ELSE IF x = Zero THEN y
        ELSE IF y = Zero THEN x
        ELSE Round(BAdd(BShl(x.m, x.e - e), BShl(y.m, y.e - e)), e, FALSE)

\* x - y for x >= y
FSub(x, y) ==
    LET e == Min(x.e, y.e)
    IN  IF x = NaN \/ y = NaN \/ (x = Infinity /\ y = Infinity) THEN NaN
        ELSE IF x = Infinity THEN Infinity
        ELSE IF y = Zero THEN x
        ELSE IF x = y THEN Zero
        ELSE Round(BSub(BShl(x.m, x.e - e), BShl(y.m, y.e - e)), e, FALSE)

\* x * y
FMul(x, y) ==
    IF x = NaN \/ y = NaN THEN NaN
    ELSE IF x = Infinity \/ y = Infinity
    THEN (IF x = Zero \/ y = Zero THEN NaN ELSE Infinity)
    ELSE IF x = Zero \/ y = Zero THEN Zero
    ELSE Round(BMul(x.m, y.m), x.e + y.e, FALSE)

\* x / d for an integer 0 < d < Base
FDivSmall(x, d) ==
    LET k == 2 * LimbBits
        q == BDivSmall(BShl(x.m, k), d)
    IN  IF x = Zero THEN Zero ELSE Round(q.q, x.e - k, q.r # 0)

\* x / y for y # Zero
FDivRound(d, e) == Round(d.q, e, d.r # <<>>)

FDivBy(x, y, k, s) ==
    Only({ FDivRound(d, x.e - y.e - k) : d \in {BDiv(BShl(x.m, k + s), BShl(y.m, s))} })

FDiv(x, y) ==
    IF x = Zero THEN Zero ELSE FDivBy(x, y, 4 * LimbBits, Normalise(y.m))

\* The number a decimal literal or parseFloat of a decimal string yields:
\* the number nearest to n / 10^k.
FromDecimal(n, k) ==
    LET g == 6 * LimbBits
        q == BDivPow10(BShl(BNat(n), g), k)
    IN  IF n = 0 THEN Zero ELSE Round(q.q, 0 - g, q.sticky)

Nano == 10^9

\* Stored amounts are decimal strings, held as nano units.  Three strings
\* are not amounts of nano units: 'Infinity' and 'NaN', which toFixed
\* yields for a number that is not finite, and a string of digits too long
\* for a finite number (more than 308 digits before the point).
InfinityText == 0 - 1
NaNText == 0 - 2
HugeDigits == 0 - 3

\* Number.prototype.toFixed(9), in nano units: the integer n for which
\* n / 10^9 is nearest to the exact value of x, the larger one on a tie.
ToFixed9(x) ==
    LET n == BMul(x.m, BNat(Nano))
        cut == 0 - x.e
        q == BShr(n, cut)
        c == BCmp(BLow(n, cut), BShl(<<1>>, cut - 1))
    IN  IF x = Infinity THEN InfinityText
        ELSE IF x = NaN THEN NaNText
        ELSE IF x = Zero THEN 0
        ELSE IF x.e >= 0 THEN BInt(BShl(n, x.e))
        ELSE BInt(IF c >= 0 THEN BAdd(q, <<1>>) ELSE q)

\* parseFloat of a stored 9-digit decimal string, held as nano units
ParseFloat(nano) ==
    IF nano \in {InfinityText, HugeDigits} THEN Infinity
    ELSE IF nano = NaNText THEN NaN
    ELSE FromDecimal(nano, 9)

(***************************************************************************)
(* Exact values m * 2^e (m of any size), to state what the numbers and the *)
(* ledger amount to without rounding.                                      *)
(***************************************************************************)
\* the whole number n
ExactNat(n) == [m |-> BNat(n), e |-> 0]

\* x * 10^9: the value of x in nano units
ScaleNano(x) == [m |-> BMul(x.m, BNat(Nano)), e |-> x.e]

ExactAdd(x, y) ==
    LET e == Min(x.e, y.e)
    IN  [m |-> BAdd(BShl(x.m, x.e - e), BShl(y.m, y.e - e)), e |-> e]

ExactMulNat(x, n) == [m |-> BMul(x.m, BNat(n)), e |-> x.e]

ExactEq(x, y) ==
    LET e == Min(x.e, y.e)
    IN  BShl(x.m, x.e - e) = BShl(y.m, y.e - e)

ExactLeq(x, y) ==
    LET e == Min(x.e, y.e)
    IN  BCmp(BShl(x.m, x.e - e), BShl(y.m, y.e - e)) <= 0

(***************************************************************************)
(* Rate resolution and reward arithmetic of                                *)
(* distributeUserRewardWithPremium and processReferralBonus.               *)
(***************************************************************************)
\* (mutant: the expiry instant itself still counts as premium)
IsPremiumActiveInclusive(user, t) ==
    user.isPremium /\ (user.premiumExpiresAt = NoTime \/ user.premiumExpiresAt >= t)

\* user.isPremium && (!user.premiumExpiresAt || new Date(premiumExpiresAt) > now)
IsPremiumActive(user, t) ==
    user.isPremium /\ (user.premiumExpiresAt = NoTime \/ user.premiumExpiresAt > t)

\* user.isPremium && user.premiumExpiresAt && new Date(premiumExpiresAt) < now
IsPremiumExpired(user, t) ==
    user.isPremium /\ user.premiumExpiresAt # NoTime /\ user.premiumExpiresAt < t

\* the literals 0.105, 0.087, 0.12 and 0.10
PremiumApy == FromDecimal(PremiumApyPerMille, 3)
StandardApy == FromDecimal(StandardApyPerMille, 3)
CommissionRate == FromDecimal(CommissionPercent, 2)
ReferralRate == FromDecimal(ReferralPercent, 2)

\* apyRate = isPremium ? 0.105 : 0.087
ApyRate(isPremium) == IF isPremium THEN PremiumApy ELSE StandardApy

\* dailyRate = apyRate / 365
PremiumDailyRate == FDivSmall(PremiumApy, DaysPerYear)
StandardDailyRate == FDivSmall(StandardApy, DaysPerYear)
DailyRate(isPremium) == IF isPremium THEN PremiumDailyRate ELSE StandardDailyRate

\* userReward = userStake * dailyRate, userStake = parseFloat(user.stakedAmount)
UserReward(stake, isPremium) == FMul(ParseFloat(stake), DailyRate(isPremium))

\* adminCommission = userReward * 0.12
AdminCommission(userReward) == FMul(userReward, CommissionRate)

\* netUserReward = userReward - adminCommission
NetUserReward(userReward) == FSub(userReward, AdminCommission(userReward))

\* referralBonus = refereeReward * 0.10
ReferralBonusLessCommission(refereeReward) ==
    FMul(NetUserReward(refereeReward), ReferralRate)

ReferralBonus(refereeReward) == FMul(refereeReward, ReferralRate)

\* (parseFloat(balance) + x).toFixed(9)
AddFixed9(balance, x) == ToFixed9(FAdd(ParseFloat(balance), x))

\* users.reduce((sum, user) => sum + parseFloat(user.stakedAmount || '0'), 0)
RECURSIVE SumStakes(_, _)
SumStakes(us, q) ==
    IF q = <<>> THEN Zero
    ELSE FAdd(SumStakes(us, SubSeq(q, 1, Len(q) - 1)),
              ParseFloat(us[q[Len(q)]].stakedAmount))

Day(t) == t \div TicksPerDay

(***************************************************************************)
(* State.                                                                  *)
(***************************************************************************)
VARIABLES
    users,         \* collection `users`: id -> document
    pool,          \* document pool/main
    transactions,  \* collection `transactions`, a bag of documents
    referrals,     \* collection `referrals`, a bag of documents
    now,           \* the clock read by `new Date()`
    faults,        \* store calls that have thrown so far
    pc,            \* run -> position in distributeRewards
    snap,          \* run -> the `users` array read by getAllUsersWithStakes
    todo,          \* run -> the users of the snapshot the loop has not reached yet
    cur,           \* run -> locals of the pending distributeUserRewardWithPremium
    referrerData,  \* run -> the document read by processReferralBonus
    hist,          \* run -> history of the run (not program state)
    reg,           \* request -> locals of a pending referral registration
    wd,            \* call -> locals of a pending processDirectWithdrawal
    accounts,      \* collection `users`: id -> the balances FirebaseStorage keeps
    poolConfig,    \* document pool/config
    dist,          \* locals of calculateAndDistributeRewards
    work,          \* user -> the promise of rewardPromises for that user
    notifications, \* the Telegram notifications dispatched
    dep,           \* locals of processDeposit
    walletSeqno,   \* the seqno of the admin wallet contract
    send,          \* locals of a send operation of AdminWallet
    premiumSubscriptions, \* collection `premiumSubscriptions`, a bag of documents
    unlock,        \* request -> locals of a pending POST /premium/unlock
    scheduler,     \* the RewardsScheduler and the tasks of node-cron
    retry          \* locals of retryTransaction

vars == <<users, pool, transactions, referrals, now, faults, pc, snap, todo, cur, referrerData,
          hist, reg, wd, accounts, poolConfig, dist, work, notifications,
          dep, walletSeqno, send, premiumSubscriptions, unlock, scheduler, retry>>

NoCur == [user |-> NoUser, now |-> 0, isPremium |-> FALSE]
\* Locals of a send operation: the method, the seqno it read before sending,
\* the seqno it last polled, and whether its message awaits the chain.
NoSend == [pc |-> "idle", op |-> "none", seqno |-> 0, currentSeqno |-> 0,
           pending |-> FALSE]
\* Locals of a deposit: the depositing account and the amount, the
\* totalStaked and the referrer of the user object it read, the bonus, the
\* new appBalance of the referrer, and the number of referrals it counted.
NoDep == [pc |-> "idle", telegramId |-> NoUser, amount |-> 0, totalStaked |-> 0,
          referredBy |-> NoUser, bonus |-> 0, appBalance |-> 0, referralCount |-> 0]
NoData == [rewardsBalance |-> 0, totalEarnings |-> 0]
\* History of a run: the day it started, the runs that had completed and
\* the runs that were in progress when it started, whether it has written to
\* the store, the users whose call threw, the users it found expired, whose
\* premium flag it cleared and whose reward it credited, and the amounts it
\* computed for each user.  (A run's first write is the premium downgrade,
\* a reward credit or the pool update: every other write follows one.)
NoHist == [started |-> FALSE, day |-> 0, after |-> {}, during |-> {},
           wrote |-> FALSE, failed |-> {}, expired |-> {}, downgraded |-> {},
           credited |-> {}, calc |-> <<>>]

\* Locals of a referral registration: the handler that serves it, the
\* requesting account, the referral code sent, the referrer the code resolved
\* to, whether the account read had a referrer, and the response.
NoReg == [pc |-> "idle", userId |-> NoUser, referralCode |-> "", referrerId |-> NoUser,
          hadReferrer |-> FALSE, result |-> "none"]

\* Locals of a withdrawal: the account, the amount asked for (nano units),
\* the balances it is about to write (newStaked, newRewards), whether the
\* balance write has committed, and the runs that had read their snapshot and had not yet
\* written the reward of the account when it committed (not program state).
NoWd == [pc |-> "idle", userId |-> NoUser, amount |-> 0,
         userData |-> [stakedAmount |-> 0, rewardsBalance |-> 0],
         stakedAmount |-> 0, rewardsBalance |-> 0, committed |-> FALSE,
         during |-> {}, error |-> "none"]

\* FirebaseStorage.createUser: the balances of a new account
NewAccount == [totalStaked |-> 0, totalEarned |-> 0, appBalance |-> 0]

\* pool/config before the first payout; writes counts the setDoc calls that
\* committed and pending holds the users whose reward write was neither
\* committed nor rejected when one did (not program state).
NoConfig == [totalStaked |-> 0, lastPayout |-> NoTime, writes |-> 0, pending |-> {}]

\* Locals of calculateAndDistributeRewards: grossRewards (nano units),
\* netRewards and totalPoolStaked (numbers), the documents getDocs returned,
\* and whether the call reached rewardPromises and whether the setDoc of
\* pool/config threw (not program state).
NoDist == [pc |-> "idle", grossRewards |-> 0, netRewards |-> Zero,
           totalPoolStaked |-> Zero, usersSnapshot |-> [u \in Users |-> NewAccount],
           applied |-> FALSE, configThrew |-> FALSE]

\* Locals of one callback of stakingUsers.map: userReward, the balances it
\* writes, and the appBalance of the referrer it read.
NoWork == [pc |-> "none", userReward |-> Zero, newTotalStaked |-> 0,
           newTotalEarned |-> 0, appBalance |-> 0]

Tx(userId, type, amount, status, description, r) ==
    [userId |-> userId, type |-> type, amount |-> amount, status |-> status,
     description |-> description, day |-> Day(now), run |-> r]

\* db.collection('transactions').add(...)
AddTransaction(tx) == transactions (+) SetToBag({tx})

(***************************************************************************)
(* Initial states: three existing accounts.  Stakes, prior balances,       *)
(* premium subscriptions and referrers are drawn from small sets.          *)
(***************************************************************************)
StakeChoices == {0, 365000000}
\* 1.00146875 TON: a stake whose net reward at the standard rate is, in
\* exact arithmetic, 210061.5 nano units
TieStakes == {1001468750}
PriorBalances == {7}
\* 0.1 TON
LargerBalances == {100000000}
ExpiryChoices == {NoTime, 1}

UserDoc(stake, bal, ref, prem, exp) ==
    [stakedAmount |-> stake, rewardsBalance |-> bal, totalEarnings |-> bal,
     referredBy |-> ref, isPremium |-> prem, premiumExpiresAt |-> exp,
     premiumRate |-> IF prem THEN "10.5" ELSE "8.7", exists |-> TRUE]

\* getUserData: the document of an account that did not exist
NewUser == UserDoc(0, 0, NoUser, FALSE, NoTime)

\* an id with no document in the collection: userDoc.exists is false
NoDoc == [NewUser EXCEPT !.exists = FALSE]

\* The collection after getUserData(id): a document that does not exist is
\* created with userRef.set.
GetUserData(us, id) == IF us[id].exists THEN us ELSE [us EXCEPT ![id] = NewUser]

\* u3 referred u2 and u2 referred u1; u1 and u3 hold the same stake and
\* different balances; u2 may hold no stake; u1 may hold a premium
\* subscription, with or without an expiry date.
InitUsers ==
    { [u1 |-> UserDoc(s1, b1, "u2", p1, e1),
       u2 |-> UserDoc(s2, b2, "u3", FALSE, NoTime),
       u3 |-> UserDoc(s1, 0, NoUser, FALSE, NoTime)] :
        s1 \in TieStakes, b1 \in LargerBalances,
        s2 \in StakeChoices, b2 \in PriorBalances,
        p1 \in BOOLEAN, e1 \in ExpiryChoices }

\* the store and the calls before the first trigger
\* locals of the handler of POST /premium/unlock; activated is set when the
\* handler has written isPremium: true, status is the HTTP status answered
NoUnlock == [pc |-> "idle", telegramId |-> NoUser, txHash |-> "none",
             expiresAt |-> NoTime, isValid |-> FALSE, activated |-> FALSE,
             status |-> 0]

\* new RewardsScheduler(): cronJob is null and node-cron holds no task of it
NoScheduler == [cronJob |-> 0, tasks |-> <<>>, last |-> "none", fired |-> {},
                triggers |-> 0]

\* locals of retryTransaction(operation, maxRetries); calls counts the
\* invocations of operation and errors lists what they threw
NoRetry == [pc |-> "idle", maxRetries |-> 0, attempt |-> 0, calls |-> 0,
            errors |-> <<>>, result |-> "none", delay |-> 0]

InitLocals ==
    /\ premiumSubscriptions = EmptyBag
    /\ unlock = [k \in Unlocks |-> NoUnlock]
    /\ scheduler = NoScheduler
    /\ retry = NoRetry
    /\ pool = [totalStaked |-> Zero, lastRewardDistribution |-> NoTime,
               adminCommission |-> 0]
    /\ transactions = EmptyBag
    /\ faults = 0
    /\ notifications = {}
    /\ dep = NoDep
    /\ walletSeqno = 0
    /\ send = NoSend
    /\ pc = [r \in Runs |-> "idle"]
    /\ snap = [r \in Runs |-> [u \in Users |-> UserDoc(0, 0, NoUser, FALSE, NoTime)]]
    /\ todo = [r \in Runs |-> <<>>]
    /\ cur = [r \in Runs |-> NoCur]
    /\ referrerData = [r \in Runs |-> NoData]
    /\ hist = [r \in Runs |-> NoHist]
    /\ reg = [q \in Regs |-> NoReg]
    /\ wd = [w \in Requests |-> NoWd]
    /\ poolConfig = NoConfig
    /\ dist = NoDist
    /\ work = [u \in Users |-> NoWork]

\* no referral is on record
InitProcesses == InitLocals /\ referrals = EmptyBag

\* no account holds a stake in the pool of depositHandler
InitCollections == InitProcesses /\ accounts = [u \in Users |-> NewAccount]

InitStore == users \in InitUsers /\ InitCollections

Init == InitStore /\ now = 0

(***************************************************************************)
(* The clock.                                                              *)
(***************************************************************************)
Tick ==
    /\ now < MaxTime
    /\ now' = now + 1
    /\ UNCHANGED <<premiumSubscriptions, unlock, scheduler, retry, walletSeqno, send, dep, notifications, accounts, poolConfig, dist, work, wd, reg, referrals, users, pool, transactions, faults, pc, snap, todo, cur,
                   referrerData, hist>>

(***************************************************************************)
(* Helpers of the run's steps.                                             *)
(***************************************************************************)
InProgress(r) == pc[r] \notin {"idle", "done", "failed"}

\* A store call throws: at most MaxFaults of them in one behaviour.
Throws == faults < MaxFaults /\ faults' = faults + 1

Goto(r, label) == pc' = [pc EXCEPT ![r] = label]

Record(r, h) == hist' = [hist EXCEPT ![r] = h]

\* catch of distributeUserRewardWithPremium: console.error, then the loop
\* of distributeRewards goes on with the next user.
CatchUserThenCascade(r) ==
    /\ Goto(r, "referrer")
    /\ UNCHANGED <<premiumSubscriptions, unlock, scheduler, retry, walletSeqno, send, dep, notifications, cur, referrerData>>

CatchUser(r) ==
    /\ Goto(r, "next")
    /\ cur' = [cur EXCEPT ![r] = NoCur]
    /\ referrerData' = [referrerData EXCEPT ![r] = NoData]

\* distributeUserRewardWithPremium returns normally.
EndUser(r) ==
    /\ Goto(r, "next")
    /\ cur' = [cur EXCEPT ![r] = NoCur]
    /\ referrerData' = [referrerData EXCEPT ![r] = NoData]

\* the `user` object of the pending call, an element of the snapshot
CurUser(r) == snap[r][cur[r].user]

\* the locals the pending call computes before its first balance write
Calc(user, isPremium) ==
    LET userReward == UserReward(user.stakedAmount, isPremium)
        adminCommission == AdminCommission(userReward)
        netUserReward == NetUserReward(userReward)
    IN  [isPremium |-> isPremium,
         userReward |-> userReward,
         adminCommission |-> adminCommission,
         netUserReward |-> netUserReward,
         newRewardsBalance |-> AddFixed9(user.rewardsBalance, netUserReward),
         newTotalEarnings |-> AddFixed9(user.totalEarnings, netUserReward)]

CurCalc(r) == Calc(CurUser(r), cur[r].isPremium)

\* netUserReward of the pending call
CurNet(r) == NetUserReward(UserReward(CurUser(r).stakedAmount, cur[r].isPremium))

(***************************************************************************)
(* distributeRewards: read the users with stakes.                          *)
(***************************************************************************)
\* getAllUsersWithStakes: where('stakedAmount', '>', '0').  Firestore returns
\* the documents of a range query ordered by the filtered field, then by id.
IdRank(u) == CHOOSE i \in 1..Len(UserIds) : UserIds[i] = u

\* The filter and the order compare strings.  A string of digits is above
\* '0', and the long one is above the amounts of the model, which have one
\* digit before the point; 'Infinity' and 'NaN' begin with a letter.
AboveZero(stakedAmount) ==
    stakedAmount > 0 \/ stakedAmount \in {InfinityText, NaNText, HugeDigits}

TextRank(a) ==
    IF a >= 0 THEN 0 ELSE IF a = HugeDigits THEN 1 ELSE IF a = InfinityText THEN 2 ELSE 3

StakeBefore(a, b) ==
    IF a >= 0 /\ b >= 0 THEN a < b ELSE TextRank(a) < TextRank(b)

Before(us, u, v) ==
    \/ StakeBefore(us[u].stakedAmount, us[v].stakedAmount)
    \/ us[u].stakedAmount = us[v].stakedAmount /\ IdRank(u) < IdRank(v)

RECURSIVE InQueryOrder(_, _)
InQueryOrder(us, S) ==
    IF S = {} THEN <<>>
    ELSE LET first == CHOOSE u \in S : \A v \in S \ {u} : Before(us, u, v)
         IN  <<first>> \o InQueryOrder(us, S \ {first})

UsersWithStakes(us) ==
    InQueryOrder(us, {u \in Users : AboveZero(us[u].stakedAmount)})

SeqToSet(q) == {q[i] : i \in 1..Len(q)}

StartRun(r) ==
    /\ pc[r] = "idle"
    /\ \A q \in Runs : q < r => pc[q] # "idle"
    /\ Record(r, [NoHist EXCEPT !.started = TRUE,
                                !.day = Day(now),
                                !.after = {q \in Runs : pc[q] = "done"},
                                !.during = {q \in Runs : InProgress(q)}])
    /\ \/ /\ snap' = [snap EXCEPT ![r] = users]
          /\ todo' = [todo EXCEPT ![r] = UsersWithStakes(users)]
          /\ IF Len(UsersWithStakes(users)) = 0
                \/ SumStakes(users, UsersWithStakes(users)) = Zero
             THEN Goto(r, "done")
             ELSE Goto(r, "next")
          /\ UNCHANGED faults
       \/ /\ Throws
          /\ Goto(r, "failed")
          /\ UNCHANGED <<snap, todo>>
    /\ UNCHANGED <<premiumSubscriptions, unlock, scheduler, retry, walletSeqno, send, dep, notifications, accounts, poolConfig, dist, work, wd, reg, referrals, users, pool, transactions, now, cur, referrerData>>

(***************************************************************************)
(* for (const user of users): the synchronous head of                      *)
(* distributeUserRewardWithPremium, up to its first await.                 *)
(***************************************************************************)
NextUser(r) ==
    /\ pc[r] = "next"
    /\ todo[r] # <<>>
    /\ LET u == Head(todo[r]) IN
          /\ todo' = [todo EXCEPT ![r] = Tail(@)]
          /\ cur' = [cur EXCEPT ![r] =
                       [user |-> u, now |-> now,
                        isPremium |-> IsPremiumActive(snap[r][u], now)]]
          /\ IF IsPremiumExpired(snap[r][u], now)
             THEN /\ Goto(r, "expire")
                  /\ Record(r, [hist[r] EXCEPT !.expired = @ \cup {u}])
             ELSE /\ Goto(r, "credit")
                  /\ UNCHANGED hist
    /\ UNCHANGED <<premiumSubscriptions, unlock, scheduler, retry, walletSeqno, send, dep, notifications, accounts, poolConfig, dist, work, wd, reg, referrals, users, pool, transactions, now, faults, snap, referrerData>>

(***************************************************************************)
(* updateUserPremiumStatus(user.id, false, null, '8.7')                    *)
(***************************************************************************)
ExpirePremium(r) ==
    /\ pc[r] = "expire"
    /\ \/ /\ users' = [users EXCEPT ![cur[r].user] =
                         [@ EXCEPT !.isPremium = FALSE,
                                   !.premiumExpiresAt = NoTime,
                                   !.premiumRate = "8.7"]]
          /\ Goto(r, "expireLog")
          /\ Record(r, [hist[r] EXCEPT !.wrote = TRUE,
                                       !.downgraded = @ \cup {cur[r].user}])
          /\ UNCHANGED <<faults, cur, referrerData>>
       \/ /\ Throws
          /\ CatchUser(r)
          /\ Record(r, [hist[r] EXCEPT !.failed = @ \cup {cur[r].user}])
          /\ UNCHANGED users
    /\ UNCHANGED <<premiumSubscriptions, unlock, scheduler, retry, walletSeqno, send, dep, notifications, accounts, poolConfig, dist, work, wd, reg, referrals, pool, transactions, now, snap, todo>>

LogPremiumExpired(r) ==
    /\ pc[r] = "expireLog"
    /\ \/ /\ transactions' = AddTransaction(
                 Tx(cur[r].user, "premium_payment", 0, "completed", "expired", r))
          /\ Goto(r, "credit")
          /\ UNCHANGED <<faults, cur, referrerData, hist>>
       \/ /\ Throws
          /\ CatchUser(r)
          /\ Record(r, [hist[r] EXCEPT !.failed = @ \cup {cur[r].user}])
          /\ UNCHANGED transactions
    /\ UNCHANGED <<premiumSubscriptions, unlock, scheduler, retry, walletSeqno, send, dep, notifications, accounts, poolConfig, dist, work, wd, reg, referrals, users, pool, now, snap, todo>>

\* CreditReward that compounds the reward into the stake as well
CreditRewardAndStake(r) ==
    /\ pc[r] = "credit"
    /\ LET calc == CurCalc(r) IN
       \/ /\ users' = [users EXCEPT ![cur[r].user] =
                 [@ EXCEPT !.stakedAmount = AddFixed9(@, calc.netUserReward),
                           !.rewardsBalance = calc.newRewardsBalance,
                           !.totalEarnings = calc.newTotalEarnings]]
          /\ Goto(r, "logReward")
          /\ Record(r, [hist[r] EXCEPT !.wrote = TRUE,
                                       !.credited = @ \cup {cur[r].user},
                                       !.calc = (cur[r].user :> calc) @@ @])
          /\ UNCHANGED <<faults, cur, referrerData>>
       \/ /\ Throws
          /\ CatchUser(r)
          /\ Record(r, [hist[r] EXCEPT !.failed = @ \cup {cur[r].user},
                                       !.calc = (cur[r].user :> calc) @@ @])
          /\ UNCHANGED users
    /\ UNCHANGED <<premiumSubscriptions, unlock, scheduler, retry, walletSeqno, send, dep, notifications, accounts, poolConfig, dist, work, wd, reg, referrals, pool, transactions, now, snap, todo>>

(***************************************************************************)
(* Credit reward to user: updateUserBalance with the balances of the       *)
(* snapshot plus the net reward.                                           *)
(***************************************************************************)
CreditReward(r) ==
    /\ pc[r] = "credit"
    /\ LET calc == CurCalc(r) IN
       \/ /\ users' = [users EXCEPT ![cur[r].user] =
                 [@ EXCEPT !.rewardsBalance = calc.newRewardsBalance,
                           !.totalEarnings = calc.newTotalEarnings]]
          /\ Goto(r, "logReward")
          /\ Record(r, [hist[r] EXCEPT !.wrote = TRUE,
                                       !.credited = @ \cup {cur[r].user},
                                       !.calc = (cur[r].user :> calc) @@ @])
          /\ UNCHANGED <<faults, cur, referrerData>>
       \/ /\ Throws
          /\ CatchUser(r)
          /\ Record(r, [hist[r] EXCEPT !.failed = @ \cup {cur[r].user},
                                       !.calc = (cur[r].user :> calc) @@ @])
          /\ UNCHANGED users
    /\ UNCHANGED <<premiumSubscriptions, unlock, scheduler, retry, walletSeqno, send, dep, notifications, accounts, poolConfig, dist, work, wd, reg, referrals, pool, transactions, now, snap, todo>>

LogReward(r) ==
    /\ pc[r] = "logReward"
    /\ \/ /\ transactions' = AddTransaction(
                 Tx(cur[r].user, "reward", ToFixed9(CurNet(r)), "completed",
                    IF cur[r].isPremium THEN "premium" ELSE "standard", r))
          /\ IF CurUser(r).referredBy # NoUser
             THEN Goto(r, "referrer") /\ UNCHANGED <<cur, referrerData>>
             ELSE EndUser(r)
          /\ UNCHANGED <<faults, hist>>
       \/ /\ Throws
          /\ CatchUser(r)
          /\ Record(r, [hist[r] EXCEPT !.failed = @ \cup {cur[r].user}])
          /\ UNCHANGED transactions
    /\ UNCHANGED <<premiumSubscriptions, unlock, scheduler, retry, walletSeqno, send, dep, notifications, accounts, poolConfig, dist, work, wd, reg, referrals, users, pool, now, snap, todo>>

(***************************************************************************)
(* processReferralBonus(user.referredBy, netUserReward, user.id): read     *)
(* the referrer, write its balances, log the `referral` transaction.  Its  *)
(* own catch swallows a throw of any of the three store calls.             *)
(***************************************************************************)
CurBonus(r) == ReferralBonus(CurNet(r))

ReadReferrer(r) ==
    /\ pc[r] = "referrer"
    /\ \/ /\ users' = GetUserData(users, CurUser(r).referredBy)
          /\ referrerData' = [referrerData EXCEPT ![r] =
                 [rewardsBalance |-> users'[CurUser(r).referredBy].rewardsBalance,
                  totalEarnings |-> users'[CurUser(r).referredBy].totalEarnings]]
          /\ Goto(r, "referrerCredit")
          /\ UNCHANGED <<faults, cur>>
       \/ /\ Throws
          /\ EndUser(r)
          /\ UNCHANGED users
    /\ UNCHANGED <<premiumSubscriptions, unlock, scheduler, retry, walletSeqno, send, dep, notifications, accounts, poolConfig, dist, work, wd, reg, referrals, pool, transactions, now, snap, todo, hist>>

CreditReferrer(r) ==
    /\ pc[r] = "referrerCredit"
    /\ \/ /\ users' = [users EXCEPT ![CurUser(r).referredBy] =
                 [@ EXCEPT !.rewardsBalance = AddFixed9(referrerData[r].rewardsBalance, CurBonus(r)),
                           !.totalEarnings = AddFixed9(referrerData[r].totalEarnings, CurBonus(r))]]
          /\ Goto(r, "referrerLog")
          /\ UNCHANGED <<faults, cur, referrerData>>
       \/ /\ Throws
          /\ EndUser(r)
          /\ UNCHANGED users
    /\ UNCHANGED <<premiumSubscriptions, unlock, scheduler, retry, walletSeqno, send, dep, notifications, accounts, poolConfig, dist, work, wd, reg, referrals, pool, transactions, now, snap, todo, hist>>

LogReferral(r) ==
    /\ pc[r] = "referrerLog"
    /\ \/ /\ transactions' = AddTransaction(
                 Tx(CurUser(r).referredBy, "referral", ToFixed9(CurBonus(r)),
                    "completed", cur[r].user, r))
          /\ UNCHANGED faults
       \/ /\ Throws
          /\ UNCHANGED transactions
    /\ EndUser(r)
    /\ UNCHANGED <<premiumSubscriptions, unlock, scheduler, retry, walletSeqno, send, dep, notifications, accounts, poolConfig, dist, work, wd, reg, referrals, users, pool, now, snap, todo, hist>>

(***************************************************************************)
(* distributeRewards: after the loop, updatePool({totalStaked,             *)
(* lastRewardDistribution}); a throw is rethrown to the caller.            *)
(***************************************************************************)
UpdatePool(r) ==
    /\ pc[r] = "next"
    /\ todo[r] = <<>>
    /\ \/ /\ pool' = [totalStaked |->
                        SumStakes(snap[r], UsersWithStakes(snap[r])),
                      lastRewardDistribution |-> now,
                      adminCommission |-> pool.adminCommission]
          /\ Goto(r, "done")
          /\ Record(r, [hist[r] EXCEPT !.wrote = TRUE])
          /\ UNCHANGED faults
       \/ /\ Throws
          /\ Goto(r, "failed")
          /\ UNCHANGED <<pool, hist>>
    /\ UNCHANGED <<premiumSubscriptions, unlock, scheduler, retry, walletSeqno, send, dep, notifications, accounts, poolConfig, dist, work, wd, reg, referrals, users, transactions, now, snap, todo, cur, referrerData>>

\* One trigger at a time: a run starts when no other run is in progress.
StartRunAlone(r) == (\A q \in Runs : ~InProgress(q)) /\ StartRun(r)

Next ==
    \/ Tick
    \/ \E r \in Runs : StartRunAlone(r)
    \/ \E r \in Runs : NextUser(r)
    \/ \E r \in Runs : ExpirePremium(r)
    \/ \E r \in Runs : LogPremiumExpired(r)
    \/ \E r \in Runs : CreditReward(r)
    \/ \E r \in Runs : LogReward(r)
    \/ \E r \in Runs : ReadReferrer(r)
    \/ \E r \in Runs : CreditReferrer(r)
    \/ \E r \in Runs : LogReferral(r)
    \/ \E r \in Runs : UpdatePool(r)

Spec == Init /\ [][Next]_vars

(***************************************************************************)
(* Overlapping runs: the cron job of RewardsScheduler and a manual         *)
(* runRewardsNow both call distributeRewards, and nothing keeps one from   *)
(* starting while the other awaits a store call.  The runs of one period   *)
(* are followed: the clock stands at the end of the day, two accounts hold *)
(* a stake and the premium subscription of one of them has run out.        *)
(***************************************************************************)
InitOverlap ==
    /\ InitStore
    /\ now = MaxTime
    /\ users["u2"].stakedAmount = 0
    /\ users["u1"].isPremium
    /\ users["u1"].premiumExpiresAt # NoTime

NextOverlap ==
    \/ \E r \in Runs : StartRun(r)
    \/ \E r \in Runs : NextUser(r)
    \/ \E r \in Runs : ExpirePremium(r)
    \/ \E r \in Runs : LogPremiumExpired(r)
    \/ \E r \in Runs : CreditReward(r)
    \/ \E r \in Runs : LogReward(r)
    \/ \E r \in Runs : ReadReferrer(r)
    \/ \E r \in Runs : CreditReferrer(r)
    \/ \E r \in Runs : LogReferral(r)
    \/ \E r \in Runs : UpdatePool(r)

SpecOverlap == InitOverlap /\ [][NextOverlap]_vars

\* Overlapping runs over a referrer that holds a stake itself: u1, whose
\* premium subscription has run out, was referred by u2, and both hold a
\* stake.
ReferrerStakes ==
    [u1 |-> UserDoc(1001468750, 100000000, "u2", TRUE, 1),
     u2 |-> UserDoc(365000000, 7, "u3", FALSE, NoTime),
     u3 |-> NewUser]

InitOverlapReferrer ==
    /\ users = ReferrerStakes
    /\ InitCollections
    /\ now = MaxTime

SpecOverlapReferrer == InitOverlapReferrer /\ [][NextOverlap]_vars

(***************************************************************************)
(* Referral registration.  POST /api/referral calls processReferral of     *)
(* firestoreManager.ts; POST /api/referral/register of routes.ts does the  *)
(* same through the storage interface.  Each await is one step.            *)
(***************************************************************************)
\* the referralCode field of the account documents, and a code no account has
ReferralCodeOf == [u \in Users |-> "code-" \o u]
UnknownCode == "code-none"
ReferralCodes == {ReferralCodeOf[u] : u \in Users} \cup {UnknownCode}

\* where('referralCode', '==', referralCode): the ids of the matching documents
FindByReferralCode(code) == {u \in Users : ReferralCodeOf[u] = code}

\* referrerId === userId
IsSelfReferralNever(userId, referrerId) == FALSE

IsSelfReferral(userId, referrerId) == referrerId = userId

SetReg(q, r) == reg' = [reg EXCEPT ![q] = r]

Respond(q, result) == SetReg(q, [reg[q] EXCEPT !.pc = "done", !.result = result])

\* a request arrives: requests take the slots in order
StartRequest(q, label, userId, code) ==
    /\ reg[q].pc = "idle"
    /\ \A p \in Regs : p < q => reg[p].pc # "idle"
    /\ SetReg(q, [NoReg EXCEPT !.pc = label, !.userId = userId, !.referralCode = code])
    /\ UNCHANGED <<premiumSubscriptions, unlock, scheduler, retry, walletSeqno, send, dep, notifications, users, wd, accounts, poolConfig, dist, work, pool, transactions, referrals, now, faults, pc, snap, todo, cur,
                   referrerData, hist>>

\* POST /api/referral: processReferral(userId, referralCode)
StartReferral(q, userId, code) == StartRequest(q, "find", userId, code)

\* processReferral: the query for the referrer, the empty and the self check
FindReferrer(q) ==
    /\ reg[q].pc = "find"
    /\ \/ /\ FindByReferralCode(reg[q].referralCode) = {}
          /\ Respond(q, "rejected")
          /\ UNCHANGED faults
       \/ /\ \E referrerId \in FindByReferralCode(reg[q].referralCode) :
                 IF IsSelfReferral(reg[q].userId, referrerId)
                 THEN SetReg(q, [reg[q] EXCEPT !.pc = "done", !.referrerId = referrerId,
                                               !.result = "rejected"])
                 ELSE SetReg(q, [reg[q] EXCEPT !.pc = "update", !.referrerId = referrerId])
          /\ UNCHANGED faults
       \/ /\ Throws
          /\ Respond(q, "rejected")
    /\ UNCHANGED <<premiumSubscriptions, unlock, scheduler, retry, walletSeqno, send, dep, notifications, users, wd, accounts, poolConfig, dist, work, pool, transactions, referrals, now, pc, snap, todo, cur,
                   referrerData, hist>>

\* processReferral: updateUserBalance(userId, { referredBy: referrerId })
SetReferredBy(q) ==
    /\ reg[q].pc = "update"
    /\ \/ /\ users' = [users EXCEPT ![reg[q].userId].referredBy = reg[q].referrerId]
          /\ Respond(q, "ok")
          /\ UNCHANGED faults
       \/ /\ Throws
          /\ Respond(q, "rejected")
          /\ UNCHANGED users
    /\ UNCHANGED <<premiumSubscriptions, unlock, scheduler, retry, walletSeqno, send, dep, notifications, wd, accounts, poolConfig, dist, work, pool, transactions, referrals, now, pc, snap, todo, cur, referrerData, hist>>

\* POST /api/referral/register
StartRegister(q, telegramId, code) == StartRequest(q, "regUser", telegramId, code)

\* storage.getUserByTelegramId(telegramId): its catch returns undefined
RegisterGetUser(q) ==
    /\ reg[q].pc = "regUser"
    /\ \/ /\ SetReg(q, [reg[q] EXCEPT !.pc = "regReferrer",
                                      !.hadReferrer = users[reg[q].userId].referredBy # NoUser])
          /\ UNCHANGED faults
       \/ /\ Throws
          /\ Respond(q, "rejected")
    /\ UNCHANGED <<premiumSubscriptions, unlock, scheduler, retry, walletSeqno, send, dep, notifications, users, wd, accounts, poolConfig, dist, work, pool, transactions, referrals, now, pc, snap, todo, cur,
                   referrerData, hist>>

\* storage.getUserByReferralCode(referralCode), then the three checks
RegisterGetReferrer(q) ==
    /\ reg[q].pc = "regReferrer"
    /\ \/ /\ FindByReferralCode(reg[q].referralCode) = {}
          /\ Respond(q, "rejected")
          /\ UNCHANGED faults
       \/ /\ \E referrer \in FindByReferralCode(reg[q].referralCode) :
                 IF reg[q].hadReferrer \/ IsSelfReferral(reg[q].userId, referrer)
                 THEN SetReg(q, [reg[q] EXCEPT !.pc = "done", !.referrerId = referrer,
                                               !.result = "rejected"])
                 ELSE SetReg(q, [reg[q] EXCEPT !.pc = "regUpdate", !.referrerId = referrer])
          /\ UNCHANGED faults
       \/ /\ Throws
          /\ Respond(q, "rejected")
    /\ UNCHANGED <<premiumSubscriptions, unlock, scheduler, retry, walletSeqno, send, dep, notifications, users, wd, accounts, poolConfig, dist, work, pool, transactions, referrals, now, pc, snap, todo, cur,
                   referrerData, hist>>

\* storage.updateUser(telegramId, { referredBy: referrer.telegramId }): its
\* catch returns undefined, and the handler answers success either way
RegisterUpdateUser(q) ==
    /\ reg[q].pc = "regUpdate"
    /\ \/ /\ users' = [users EXCEPT ![reg[q].userId].referredBy = reg[q].referrerId]
          /\ UNCHANGED faults
       \/ /\ Throws
          /\ UNCHANGED users
    /\ Respond(q, "ok")
    /\ UNCHANGED <<premiumSubscriptions, unlock, scheduler, retry, walletSeqno, send, dep, notifications, wd, accounts, poolConfig, dist, work, pool, transactions, referrals, now, pc, snap, todo, cur, referrerData, hist>>

\* accounts that have not registered a referral yet
InitReferral ==
    /\ users = [u \in Users |-> NewUser]
    /\ InitCollections
    /\ now = 0

NextReferral ==
    \/ \E q \in Regs, u \in Users, code \in ReferralCodes : StartReferral(q, u, code)
    \/ \E q \in Regs : FindReferrer(q)
    \/ \E q \in Regs : SetReferredBy(q)
    \/ \E q \in Regs, u \in Users, code \in ReferralCodes : StartRegister(q, u, code)
    \/ \E q \in Regs : RegisterGetUser(q)
    \/ \E q \in Regs : RegisterGetReferrer(q)
    \/ \E q \in Regs : RegisterUpdateUser(q)

SpecReferral == InitReferral /\ [][NextReferral]_vars

(***************************************************************************)
(* A referrer that no longer exists: the account u1 names u3 as its        *)
(* referrer, and the collection holds no document u3.                      *)
(***************************************************************************)
MissingReferrer ==
    [u1 |-> UserDoc(1001468750, 100000000, "u3", TRUE, 1),
     u2 |-> UserDoc(365000000, 7, "u1", FALSE, NoTime),
     u3 |-> NoDoc]

InitMissingReferrer ==
    /\ users = MissingReferrer
    /\ InitCollections
    /\ now = MaxTime

\* one distribution at a time
NextRuns ==
    \/ \E r \in Runs : StartRunAlone(r)
    \/ \E r \in Runs : NextUser(r)
    \/ \E r \in Runs : ExpirePremium(r)
    \/ \E r \in Runs : LogPremiumExpired(r)
    \/ \E r \in Runs : CreditReward(r)
    \/ \E r \in Runs : LogReward(r)
    \/ \E r \in Runs : ReadReferrer(r)
    \/ \E r \in Runs : CreditReferrer(r)
    \/ \E r \in Runs : LogReferral(r)
    \/ \E r \in Runs : UpdatePool(r)

SpecMissingReferrer == InitMissingReferrer /\ [][NextRuns]_vars

(***************************************************************************)
(* A stake that is not finite: POST /api/deposit accepts any string of     *)
(* digits as the amount, and processDirectDeposit stores it as it is.      *)
(***************************************************************************)
InvalidStake ==
    [u1 |-> UserDoc(1001468750, 100000000, "u3", TRUE, 1),
     u2 |-> UserDoc(HugeDigits, 7, "u1", FALSE, NoTime),
     u3 |-> UserDoc(0, 0, NoUser, FALSE, NoTime)]

InitInvalidStake ==
    /\ users = InvalidStake
    /\ InitCollections
    /\ now = MaxTime

SpecInvalidStake == InitInvalidStake /\ [][NextRuns]_vars

(***************************************************************************)
(* Withdrawals.  AdminWallet.processDirectWithdrawal reads the account     *)
(* with getUserData, takes the amount from the rewards first and then from *)
(* the stake, and writes both balances with updateUserBalance.  It runs    *)
(* on a request, whatever a reward distribution is doing.                  *)
(***************************************************************************)
\* 0.05 TON and 0.6 TON
WithdrawChoices == {50000000, 600000000}

SetWd(w, d) == wd' = [wd EXCEPT ![w] = d]

\* the run r has read its snapshot and has not yet written the reward of u
RewardPending(r, u) ==
    /\ InProgress(r)
    /\ u \in SeqToSet(todo[r]) \cup {cur[r].user}
    /\ u \notin hist[r].credited \cup hist[r].failed

\* processDirectWithdrawal(userId, amount, userWalletAddress) is called:
\* calls take the slots in order
StartWithdrawal(w, userId, amount) ==
    /\ wd[w].pc = "idle"
    /\ \A v \in Requests : v < w => wd[v].pc # "idle"
    /\ SetWd(w, [NoWd EXCEPT !.pc = "get", !.userId = userId, !.amount = amount])
    /\ UNCHANGED <<premiumSubscriptions, unlock, scheduler, retry, walletSeqno, send, dep, notifications, users, accounts, poolConfig, dist, work, pool, transactions, referrals, now, faults, pc, snap, todo, cur,
                   referrerData, hist, reg>>

\* The locals the call computes from the account it read, before its
\* balance write: whether withdrawAmount > totalAvailable, and newStaked
\* and newRewards as toFixed(9) writes them.
WithdrawFromClamped(currentStaked, currentRewards, withdrawAmount) ==
    IF ~ExactLeq(withdrawAmount, FAdd(currentStaked, currentRewards))
    THEN [insufficient |-> FALSE, stakedAmount |-> 0, rewardsBalance |-> 0]
    ELSE IF ExactLeq(withdrawAmount, currentRewards)
    THEN [insufficient |-> FALSE,
          stakedAmount |-> ToFixed9(currentStaked),
          rewardsBalance |-> ToFixed9(FSub(currentRewards, withdrawAmount))]
    ELSE [insufficient |-> FALSE,
          stakedAmount |-> ToFixed9(FSub(currentStaked,
                                         FSub(withdrawAmount, currentRewards))),
          rewardsBalance |-> 0]

WithdrawFromStakeFirst(currentStaked, currentRewards, withdrawAmount) ==
    IF ~ExactLeq(withdrawAmount, FAdd(currentStaked, currentRewards))
    THEN [insufficient |-> TRUE, stakedAmount |-> 0, rewardsBalance |-> 0]
    ELSE IF ExactLeq(withdrawAmount, currentStaked)
    THEN [insufficient |-> FALSE,
          stakedAmount |-> ToFixed9(FSub(currentStaked, withdrawAmount)),
          rewardsBalance |-> ToFixed9(currentRewards)]
    ELSE [insufficient |-> FALSE,
          stakedAmount |-> 0,
          rewardsBalance |-> ToFixed9(FSub(currentRewards,
                                           FSub(withdrawAmount, currentStaked)))]

WithdrawFrom(currentStaked, currentRewards, withdrawAmount) ==
    IF ~ExactLeq(withdrawAmount, FAdd(currentStaked, currentRewards))
    THEN [insufficient |-> TRUE, stakedAmount |-> 0, rewardsBalance |-> 0]
    ELSE IF ExactLeq(withdrawAmount, currentRewards)
    THEN [insufficient |-> FALSE,
          stakedAmount |-> ToFixed9(currentStaked),
          rewardsBalance |-> ToFixed9(FSub(currentRewards, withdrawAmount))]
    ELSE [insufficient |-> FALSE,
          stakedAmount |-> ToFixed9(FSub(currentStaked,
                                         FSub(withdrawAmount, currentRewards))),
          rewardsBalance |-> 0]

\* parseFloat(text) || 0: NaN and zero are falsy
OrZero(x) == IF x = NaN THEN Zero ELSE x

NewBalances(stakedAmount, rewardsBalance, amount) ==
    WithdrawFrom(OrZero(ParseFloat(stakedAmount)), OrZero(ParseFloat(rewardsBalance)),
                 ParseFloat(amount))

\* getUserData(userId), the balance check and the new balances: an amount
\* above the total throws, and so does a failing read.
WithdrawGetUserData(w) ==
    /\ wd[w].pc = "get"
    /\ \/ /\ users' = GetUserData(users, wd[w].userId)
          /\ LET userData == users'[wd[w].userId]
                 new == NewBalances(userData.stakedAmount, userData.rewardsBalance,
                                    wd[w].amount)
                 read == [stakedAmount |-> userData.stakedAmount,
                          rewardsBalance |-> userData.rewardsBalance]
             IN  IF new.insufficient
                 THEN SetWd(w, [wd[w] EXCEPT !.pc = "done", !.userData = read,
                                             !.error = "Insufficient balance"])
                 ELSE SetWd(w, [wd[w] EXCEPT !.pc = "update", !.userData = read,
                                             !.stakedAmount = new.stakedAmount,
                                             !.rewardsBalance = new.rewardsBalance])
          /\ UNCHANGED faults
       \/ /\ Throws
          /\ SetWd(w, [wd[w] EXCEPT !.pc = "done", !.error = "getUserData"])
          /\ UNCHANGED users
    /\ UNCHANGED <<premiumSubscriptions, unlock, scheduler, retry, walletSeqno, send, dep, notifications, accounts, poolConfig, dist, work, pool, transactions, referrals, now, pc, snap, todo, cur,
                   referrerData, hist, reg>>

\* updateUserBalance(userId, {stakedAmount, rewardsBalance}).  The call
\* that follows it, addTransaction, is not an export of firestoreManager:
\* the handler throws there, after the balances are written, and no
\* transaction is logged.
WithdrawUpdateBalance(w) ==
    /\ wd[w].pc = "update"
    /\ LET u == wd[w].userId IN
       \/ /\ users' = [users EXCEPT ![u] =
                 [@ EXCEPT !.stakedAmount = wd[w].stakedAmount,
                           !.rewardsBalance = wd[w].rewardsBalance]]
          /\ SetWd(w, [wd[w] EXCEPT !.pc = "done", !.committed = TRUE,
                                    !.during = {r \in Runs : RewardPending(r, u)},
                                    !.error = "addTransaction is not a function"])
          /\ UNCHANGED faults
       \/ /\ Throws
          /\ SetWd(w, [wd[w] EXCEPT !.pc = "done", !.error = "updateUserBalance"])
          /\ UNCHANGED users
    /\ UNCHANGED <<premiumSubscriptions, unlock, scheduler, retry, walletSeqno, send, dep, notifications, accounts, poolConfig, dist, work, pool, transactions, referrals, now, pc, snap, todo, cur, referrerData,
                   hist, reg>>

\* One distribution at a time and the withdrawals of a day: the clock
\* stands at the end of the day.
InitWithdrawal ==
    /\ users = ReferrerStakes
    /\ InitCollections
    /\ now = MaxTime

NextWithdrawal ==
    \/ \E r \in Runs : StartRunAlone(r)
    \/ \E r \in Runs : NextUser(r)
    \/ \E r \in Runs : ExpirePremium(r)
    \/ \E r \in Runs : LogPremiumExpired(r)
    \/ \E r \in Runs : CreditReward(r)
    \/ \E r \in Runs : LogReward(r)
    \/ \E r \in Runs : ReadReferrer(r)
    \/ \E r \in Runs : CreditReferrer(r)
    \/ \E r \in Runs : LogReferral(r)
    \/ \E r \in Runs : UpdatePool(r)
    \/ \E w \in Withdrawals, u \in Users, a \in WithdrawChoices : StartWithdrawal(w, u, a)
    \/ \E w \in Withdrawals : WithdrawGetUserData(w)
    \/ \E w \in Withdrawals : WithdrawUpdateBalance(w)

SpecWithdrawal == InitWithdrawal /\ [][NextWithdrawal]_vars

\* Concurrent requests of POST /withdraw and no reward run: each await of
\* processDirectWithdrawal is a point where another request may run.
NextRequests ==
    \/ \E w \in Requests, u \in Users, a \in WithdrawChoices : StartWithdrawal(w, u, a)
    \/ \E w \in Requests : WithdrawGetUserData(w)
    \/ \E w \in Requests : WithdrawUpdateBalance(w)

SpecRequests == InitWithdrawal /\ [][NextRequests]_vars

(***************************************************************************)
(* The pool distribution of depositHandler.  calculateAndDistributeRewards *)
(* shares the net rewards of the validators among the accounts in          *)
(* proportion to their totalStaked.  It starts one callback per account    *)
(* with stakingUsers.map(async ...) and waits for them with Promise.all:   *)
(* every callback runs up to its first await when it is created, and the   *)
(* callbacks then go on in any order.  The accounts are those of           *)
(* FirebaseStorage.createUser, which hold no stakedAmount field.           *)
(***************************************************************************)
\* fetchValidatorRewards(): the gross rewards of the day, 0 or 0.01 TON
GrossChoices == {0, 10000000}

\* netRewards = grossRewards - grossRewards * ADMIN_COMMISSION_RATE
NetRewards(grossRewards) == FSub(grossRewards, FMul(grossRewards, CommissionRate))

\* totalPoolStaked += userStaked, over the documents in the order of their ids
RECURSIVE SumTotalStaked(_, _)
SumTotalStaked(docs, q) ==
    IF q = <<>> THEN Zero
    ELSE FAdd(SumTotalStaked(docs, SubSeq(q, 1, Len(q) - 1)),
              ParseFloat(docs[q[Len(q)]].totalStaked))

\* userReward = netRewards * (user.stakedAmount / totalPoolStaked)
PoolReward(netRewards, stakedAmount, totalPoolStaked) ==
    FMul(netRewards, FDiv(stakedAmount, totalPoolStaked))

\* The synchronous head of the callback of one user, up to its updateDoc.
WorkOf(user, userReward) ==
    [pc |-> "update", userReward |-> userReward,
     newTotalStaked |-> AddFixed9(user.totalStaked, userReward),
     newTotalEarned |-> AddFixed9(user.totalEarned, userReward),
     appBalance |-> 0]

\* userReward is computed once, then the balances from it
StartWork(user, netRewards, totalPoolStaked) ==
    Only({ WorkOf(user, userReward) :
             userReward \in {PoolReward(netRewards, ParseFloat(user.totalStaked),
                                        totalPoolStaked)} })

SetWork(u, w) == work' = [work EXCEPT ![u] = w]

\* a callback throws outside a try: its promise is rejected
Reject(u) == SetWork(u, [work[u] EXCEPT !.pc = "rejected"])

Fulfil(u) == SetWork(u, [work[u] EXCEPT !.pc = "fulfilled"])

\* StartDistribution without the test grossRewards <= 0
StartDistributionAnyYield(gross) ==
    /\ dist.pc = "idle"
    /\ \/ /\ dist' = [dist EXCEPT !.pc = "getDocs",
                                  !.grossRewards = gross,
                                  !.netRewards = NetRewards(ParseFloat(gross))]
          /\ UNCHANGED faults
       \/ /\ Throws
          /\ dist' = [dist EXCEPT !.pc = "catch"]
    /\ UNCHANGED <<premiumSubscriptions, unlock, scheduler, retry, walletSeqno, send, dep, notifications, accounts, poolConfig, work, users, pool, transactions, referrals, now,
                   pc, snap, todo, cur, referrerData, hist, reg, wd>>

\* calculateAndDistributeRewards is called: fetchValidatorRewards, the
\* commission and the net rewards.  No rewards: the call returns.
StartDistribution(gross) ==
    /\ dist.pc = "idle"
    /\ \/ /\ dist' = [dist EXCEPT !.pc = IF gross <= 0 THEN "done" ELSE "getDocs",
                                  !.grossRewards = gross,
                                  !.netRewards = NetRewards(ParseFloat(gross))]
          /\ UNCHANGED faults
       \/ /\ Throws
          /\ dist' = [dist EXCEPT !.pc = "catch"]
    /\ UNCHANGED <<premiumSubscriptions, unlock, scheduler, retry, walletSeqno, send, dep, notifications, accounts, poolConfig, work, users, pool, transactions, referrals, now,
                   pc, snap, todo, cur, referrerData, hist, reg, wd>>

\* getDocs(collection(db, 'users')), the staking users and their total;
\* then stakingUsers.map starts the callbacks.
ReadUsers ==
    /\ dist.pc = "getDocs"
    /\ \/ \E totalPoolStaked \in {SumTotalStaked(accounts, UserIds)} :
          /\ IF totalPoolStaked = Zero
             THEN /\ dist' = [dist EXCEPT !.pc = "done", !.usersSnapshot = accounts]
                  /\ UNCHANGED work
             ELSE /\ dist' = [dist EXCEPT !.pc = "all", !.usersSnapshot = accounts,
                                          !.totalPoolStaked = totalPoolStaked,
                                          !.applied = TRUE]
                  /\ work' = [u \in Users |->
                                IF accounts[u].totalStaked > 0
                                THEN StartWork(accounts[u], dist.netRewards,
                                               totalPoolStaked)
                                ELSE NoWork]
          /\ UNCHANGED faults
       \/ /\ Throws
          /\ dist' = [dist EXCEPT !.pc = "catch"]
          /\ UNCHANGED work
    /\ UNCHANGED <<premiumSubscriptions, unlock, scheduler, retry, walletSeqno, send, dep, notifications, accounts, poolConfig, users, pool, transactions, referrals, now,
                   pc, snap, todo, cur, referrerData, hist, reg, wd>>

\* updateDoc(doc(db, 'users', user.id), {totalStaked, totalEarned})
WorkUpdate(u) ==
    /\ work[u].pc = "update"
    /\ \/ /\ accounts' = [accounts EXCEPT ![u] =
                 [@ EXCEPT !.totalStaked = work[u].newTotalStaked,
                           !.totalEarned = work[u].newTotalEarned]]
          /\ SetWork(u, [work[u] EXCEPT !.pc = "log"])
          /\ UNCHANGED faults
       \/ /\ Throws
          /\ Reject(u)
          /\ UNCHANGED accounts
    /\ UNCHANGED <<premiumSubscriptions, unlock, scheduler, retry, walletSeqno, send, dep, notifications, poolConfig, dist, users, pool, transactions, referrals, now,
                   pc, snap, todo, cur, referrerData, hist, reg, wd>>

\* createAnalytics and createTransaction({type: 'reward'})
WorkLog(u) ==
    /\ work[u].pc = "log"
    /\ \/ /\ transactions' = AddTransaction(
                 Tx(u, "reward", ToFixed9(work[u].userReward), "completed",
                    "Daily pool reward", 0))
          /\ SetWork(u, [work[u] EXCEPT !.pc = "notify"])
          /\ UNCHANGED faults
       \/ /\ Throws
          /\ Reject(u)
          /\ UNCHANGED transactions
    /\ UNCHANGED <<premiumSubscriptions, unlock, scheduler, retry, walletSeqno, send, dep, notifications, accounts, poolConfig, dist, users, pool, referrals, now,
                   pc, snap, todo, cur, referrerData, hist, reg, wd>>

\* a notification of one kind, to one account, about the account `from` or
\* about a number of referrals
Notification(type, to, about) == [type |-> type, to |-> to, about |-> about]

\* await sendDailyRewardsNotification(...), outside any try of the callback:
\* the step is the return or the throw of the dispatch, and a dispatch that
\* does not return is this step never taken.  Then the referral bonus, if
\* the user has a referrer and userReward > 0.
WorkNotify(u) ==
    /\ work[u].pc = "notify"
    /\ \/ /\ notifications' = notifications \cup {Notification("daily_rewards", u, u)}
          /\ IF users[u].referredBy # NoUser /\ work[u].userReward # Zero
             THEN SetWork(u, [work[u] EXCEPT !.pc = "getReferrer"])
             ELSE Fulfil(u)
          /\ UNCHANGED faults
       \/ /\ Throws
          /\ Reject(u)
          /\ UNCHANGED notifications
    /\ UNCHANGED <<premiumSubscriptions, unlock, scheduler, retry, walletSeqno, send, dep, accounts, poolConfig, dist, users, pool, transactions, referrals, now,
                   pc, snap, todo, cur, referrerData, hist, reg, wd>>

\* referrer = await storage.getUserByTelegramId(user.referredBy), which
\* returns undefined when its query throws: the callback then ends.
WorkGetReferrer(u) ==
    /\ work[u].pc = "getReferrer"
    /\ \/ /\ SetWork(u, [work[u] EXCEPT
                 !.pc = "updateReferrer",
                 !.appBalance = AddFixed9(accounts[users[u].referredBy].appBalance,
                                          ReferralBonus(work[u].userReward))])
          /\ UNCHANGED faults
       \/ /\ Throws
          /\ Fulfil(u)
    /\ UNCHANGED <<premiumSubscriptions, unlock, scheduler, retry, walletSeqno, send, dep, notifications, accounts, poolConfig, dist, users, pool, transactions, referrals, now,
                   pc, snap, todo, cur, referrerData, hist, reg, wd>>

\* storage.updateUser(user.referredBy, {appBalance: newReferrerBalance}):
\* it looks the referrer up and writes with updateDoc; when either throws
\* it returns undefined and the callback goes on.
WorkUpdateReferrer(u) ==
    /\ work[u].pc = "updateReferrer"
    /\ \/ /\ accounts' = [accounts EXCEPT ![users[u].referredBy].appBalance =
                                              work[u].appBalance]
          /\ UNCHANGED faults
       \/ /\ Throws
          /\ UNCHANGED accounts
    /\ SetWork(u, [work[u] EXCEPT !.pc = "logReferral"])
    /\ UNCHANGED <<premiumSubscriptions, unlock, scheduler, retry, walletSeqno, send, dep, notifications, poolConfig, dist, users, pool, transactions, referrals, now,
                   pc, snap, todo, cur, referrerData, hist, reg, wd>>

\* createReferral, createTransaction({type: 'referral_bonus'}) and the
\* notification of the referrer, inside the try of the callback: a throw
\* is logged to the console.
WorkLogReferral(u) ==
    /\ work[u].pc = "logReferral"
    /\ LET bonus == ToFixed9(ReferralBonus(work[u].userReward)) IN
       \/ /\ referrals' = referrals (+) SetToBag({[referrer |-> users[u].referredBy,
                                                   referred |-> u, bonus |-> bonus]})
          /\ transactions' = AddTransaction(
                 Tx(users[u].referredBy, "referral_bonus", bonus, "completed",
                    "Daily referral bonus", 0))
          /\ notifications' = notifications \cup
                 {Notification("referral_bonus", users[u].referredBy, u)}
          /\ UNCHANGED faults
       \/ /\ Throws
          /\ UNCHANGED <<referrals, transactions, notifications>>
    /\ Fulfil(u)
    /\ UNCHANGED <<premiumSubscriptions, unlock, scheduler, retry, walletSeqno, send, dep, accounts, poolConfig, dist, users, pool, now,
                   pc, snap, todo, cur, referrerData, hist, reg, wd>>

\* the reward write of u is neither committed nor rejected
WritePending(u) == work[u].pc = "update"

\* await Promise.all(rewardPromises): fulfilled when every promise is
AllFulfilled ==
    /\ dist.pc = "all"
    /\ \A u \in Users : work[u].pc \in {"none", "fulfilled"}
    /\ dist' = [dist EXCEPT !.pc = "config"]
    /\ UNCHANGED <<premiumSubscriptions, unlock, scheduler, retry, walletSeqno, send, dep, notifications, accounts, poolConfig, work, users, pool, transactions, referrals, now,
                   faults, pc, snap, todo, cur, referrerData, hist, reg, wd>>

\* await Promise.all(rewardPromises): rejected as soon as one promise is;
\* the other callbacks go on.
OneRejected ==
    /\ dist.pc = "all"
    /\ \E u \in Users : work[u].pc = "rejected"
    /\ dist' = [dist EXCEPT !.pc = "catch"]
    /\ UNCHANGED <<premiumSubscriptions, unlock, scheduler, retry, walletSeqno, send, dep, notifications, accounts, poolConfig, work, users, pool, transactions, referrals, now,
                   faults, pc, snap, todo, cur, referrerData, hist, reg, wd>>

\* setDoc(doc(db, 'pool', 'config'), {totalStaked, lastPayout, ...})
UpdateConfig ==
    /\ dist.pc = "config"
    /\ \/ /\ poolConfig' = [totalStaked |-> ToFixed9(dist.totalPoolStaked),
                            lastPayout |-> now,
                            writes |-> poolConfig.writes + 1,
                            pending |-> poolConfig.pending
                                          \cup {u \in Users : WritePending(u)}]
          /\ dist' = [dist EXCEPT !.pc = "commission"]
          /\ UNCHANGED faults
       \/ /\ Throws
          /\ dist' = [dist EXCEPT !.pc = "catch", !.configThrew = TRUE]
          /\ UNCHANGED poolConfig
    /\ UNCHANGED <<premiumSubscriptions, unlock, scheduler, retry, walletSeqno, send, dep, notifications, accounts, work, users, pool, transactions, referrals, now,
                   pc, snap, todo, cur, referrerData, hist, reg, wd>>

\* createTransaction({telegramId: 'admin', type: 'reward', amount: adminCommission})
LogCommission ==
    /\ dist.pc = "commission"
    /\ \/ /\ transactions' = AddTransaction(
                 Tx("admin", "reward",
                    ToFixed9(FMul(ParseFloat(dist.grossRewards), CommissionRate)),
                    "completed", "Admin commission", 0))
          /\ dist' = [dist EXCEPT !.pc = "done"]
          /\ UNCHANGED faults
       \/ /\ Throws
          /\ dist' = [dist EXCEPT !.pc = "catch"]
          /\ UNCHANGED transactions
    /\ UNCHANGED <<premiumSubscriptions, unlock, scheduler, retry, walletSeqno, send, dep, notifications, accounts, poolConfig, work, users, pool, referrals, now,
                   pc, snap, todo, cur, referrerData, hist, reg, wd>>

\* LogFailed with the status of a distribution that succeeded
LogFailedAsCompleted ==
    /\ dist.pc = "catch"
    /\ \/ /\ transactions' = AddTransaction(
                 Tx("system", "reward", 0, "completed", "Reward distribution failed", 0))
          /\ UNCHANGED faults
       \/ /\ Throws
          /\ UNCHANGED transactions
    /\ dist' = [dist EXCEPT !.pc = "failed"]
    /\ UNCHANGED <<premiumSubscriptions, unlock, scheduler, retry, walletSeqno, send, dep, notifications, accounts, poolConfig, work, users, pool, referrals, now,
                   pc, snap, todo, cur, referrerData, hist, reg, wd>>

\* catch: createTransaction({telegramId: 'system', status: 'failed'}),
\* itself in a try
LogFailed ==
    /\ dist.pc = "catch"
    /\ \/ /\ transactions' = AddTransaction(
                 Tx("system", "reward", 0, "failed", "Reward distribution failed", 0))
          /\ UNCHANGED faults
       \/ /\ Throws
          /\ UNCHANGED transactions
    /\ dist' = [dist EXCEPT !.pc = "failed"]
    /\ UNCHANGED <<premiumSubscriptions, unlock, scheduler, retry, walletSeqno, send, dep, notifications, accounts, poolConfig, work, users, pool, referrals, now,
                   pc, snap, todo, cur, referrerData, hist, reg, wd>>

\* 1 TON, 0.5 TON, 0.25 TON
PoolStakes == [u1 |-> 1000000000, u2 |-> 500000000, u3 |-> 250000000]

\* u1 and u2 were referred by u3; every account may hold its stake, and
\* u3 holds an app balance.
InitAccounts ==
    { [u \in Users |-> [totalStaked |-> IF u \in S THEN PoolStakes[u] ELSE 0,
                        totalEarned |-> 0,
                        appBalance |-> IF u = "u3" THEN 7 ELSE 0]] :
        S \in SUBSET Users }

InitParallel ==
    /\ users = [u \in Users |->
                  UserDoc(0, 0, IF u = "u3" THEN NoUser ELSE "u3", FALSE, NoTime)]
    /\ InitProcesses
    /\ accounts \in InitAccounts
    /\ now = 0

NextParallel ==
    \/ \E gross \in GrossChoices : StartDistribution(gross)
    \/ ReadUsers
    \/ \E u \in Users : WorkUpdate(u)
    \/ \E u \in Users : WorkLog(u)
    \/ \E u \in Users : WorkNotify(u)
    \/ \E u \in Users : WorkGetReferrer(u)
    \/ \E u \in Users : WorkUpdateReferrer(u)
    \/ \E u \in Users : WorkLogReferral(u)
    \/ AllFulfilled
    \/ OneRejected
    \/ UpdateConfig
    \/ LogCommission
    \/ LogFailed

SpecParallel == InitParallel /\ [][NextParallel]_vars

\* Both midnight jobs over one collection: the accounts hold totalStaked and
\* no stakedAmount, so that distributeRewards finds no stakes.
NextBothJobs ==
    \/ \E r \in Runs : StartRunAlone(r)
    \/ NextParallel

SpecBothJobs == InitParallel /\ [][NextBothJobs]_vars

\* Both jobs with something to distribute: u1 holds a stakedAmount and a
\* totalStaked, and u3 referred it.
InitBothCredits ==
    /\ users = [u1 |-> UserDoc(1001468750, 100000000, "u3", TRUE, 1),
                u2 |-> UserDoc(0, 0, "u3", FALSE, NoTime),
                u3 |-> UserDoc(0, 0, NoUser, FALSE, NoTime)]
    /\ InitProcesses
    /\ accounts = [u \in Users |->
                     [NewAccount EXCEPT !.totalStaked =
                                            IF u = "u1" THEN PoolStakes[u] ELSE 0]]
    /\ now = MaxTime

NextBothCredits ==
    \/ NextRuns
    \/ NextParallel

SpecBothCredits == InitBothCredits /\ [][NextBothCredits]_vars

(***************************************************************************)
(* Deposits.  processDeposit of depositHandler: the stake of the user is   *)
(* raised and logged, and a deposit of at least 1 TON by a referred user   *)
(* pays its referrer 10% of the amount (processReferralBonus), with the    *)
(* notifications and the milestone check.                                  *)
(***************************************************************************)
\* 0.5 TON, 1 TON
DepositChoices == {500000000, 1000000000}

\* const milestones = [5, 10, 25, 50, 100]
Milestones == {5, 10, 25, 50, 100}

\* the documents of `referrals` whose referrer is b
ReferralCount(b) ==
    BagCardinality([t \in {x \in BagToSet(referrals) : x.referrer = b}
                      |-> CopiesIn(t, referrals)])

SetDep(d) == dep' = d

\* user = await storage.getUserByTelegramId(telegramId), which returns
\* undefined when its query throws: 'User not found'
StartDeposit(telegramId, amount) ==
    /\ dep.pc = "idle"
    /\ \/ /\ SetDep([NoDep EXCEPT !.pc = "stake",
                                  !.telegramId = telegramId,
                                  !.amount = amount,
                                  !.totalStaked = accounts[telegramId].totalStaked,
                                  !.referredBy = users[telegramId].referredBy])
          /\ UNCHANGED faults
       \/ /\ Throws
          /\ SetDep([NoDep EXCEPT !.pc = "failed"])
    /\ UNCHANGED <<premiumSubscriptions, unlock, scheduler, retry, walletSeqno, send, accounts, transactions, referrals, notifications, users, pool, poolConfig, dist, work, now,
                   pc, snap, todo, cur, referrerData, hist, reg, wd>>

\* getTotalPoolSize, stakeTonToValidators and createStake: none of them
\* writes a collection of the model; a throw ends the deposit.
DepositStake ==
    /\ dep.pc = "stake"
    /\ \/ /\ SetDep([dep EXCEPT !.pc = "updateUser"])
          /\ UNCHANGED faults
       \/ /\ Throws
          /\ SetDep([dep EXCEPT !.pc = "failed"])
    /\ UNCHANGED <<premiumSubscriptions, unlock, scheduler, retry, walletSeqno, send, accounts, transactions, referrals, notifications, users, pool, poolConfig, dist, work, now,
                   pc, snap, todo, cur, referrerData, hist, reg, wd>>

\* storage.updateUser(telegramId, {totalStaked: newUserStaked, walletAddress}),
\* which returns undefined when its write throws
DepositUpdateUser ==
    /\ dep.pc = "updateUser"
    /\ \/ /\ accounts' = [accounts EXCEPT ![dep.telegramId].totalStaked =
                             AddFixed9(dep.totalStaked, ParseFloat(dep.amount))]
          /\ UNCHANGED faults
       \/ /\ Throws
          /\ UNCHANGED accounts
    /\ SetDep([dep EXCEPT !.pc = "logDeposit"])
    /\ UNCHANGED <<premiumSubscriptions, unlock, scheduler, retry, walletSeqno, send, transactions, referrals, notifications, users, pool, poolConfig, dist, work, now,
                   pc, snap, todo, cur, referrerData, hist, reg, wd>>

\* referralBonus = (parseFloat(amount) * REFERRAL_BONUS_RATE).toFixed(9)
DepositBonus(amount) == ToFixed9(FMul(ParseFloat(amount), ReferralRate))

\* createTransaction({type: 'deposit'}); then processReferralBonus if
\* user.referredBy && parseFloat(amount) >= 1
DepositLog ==
    /\ dep.pc = "logDeposit"
    /\ \/ /\ transactions' = AddTransaction(
                 Tx(dep.telegramId, "deposit", dep.amount, "completed", "Deposited", 0))
          /\ IF dep.referredBy # NoUser /\ dep.amount >= Nano
             THEN SetDep([dep EXCEPT !.pc = "createReferral",
                                     !.bonus = DepositBonus(dep.amount)])
             ELSE SetDep([dep EXCEPT !.pc = "done"])
          /\ UNCHANGED faults
       \/ /\ Throws
          /\ SetDep([dep EXCEPT !.pc = "failed"])
          /\ UNCHANGED transactions
    /\ UNCHANGED <<premiumSubscriptions, unlock, scheduler, retry, walletSeqno, send, accounts, referrals, notifications, users, pool, poolConfig, dist, work, now,
                   pc, snap, todo, cur, referrerData, hist, reg, wd>>

\* processReferralBonus: storage.createReferral(...).  A throw of any call
\* of processReferralBonus is logged to the console by its catch.
DepositCreateReferral ==
    /\ dep.pc = "createReferral"
    /\ \/ /\ referrals' = referrals (+) SetToBag({[referrer |-> dep.referredBy,
                                                   referred |-> dep.telegramId,
                                                   bonus |-> dep.bonus]})
          /\ SetDep([dep EXCEPT !.pc = "getReferrer"])
          /\ UNCHANGED faults
       \/ /\ Throws
          /\ SetDep([dep EXCEPT !.pc = "done"])
          /\ UNCHANGED referrals
    /\ UNCHANGED <<premiumSubscriptions, unlock, scheduler, retry, walletSeqno, send, accounts, transactions, notifications, users, pool, poolConfig, dist, work, now,
                   pc, snap, todo, cur, referrerData, hist, reg, wd>>

\* referrer = await storage.getUserByTelegramId(user.referredBy); if (referrer)
DepositGetReferrer ==
    /\ dep.pc = "getReferrer"
    /\ \/ /\ SetDep([dep EXCEPT !.pc = "updateReferrer",
                                !.appBalance = AddFixed9(accounts[dep.referredBy].appBalance,
                                                         ParseFloat(dep.bonus))])
          /\ UNCHANGED faults
       \/ /\ Throws
          /\ SetDep([dep EXCEPT !.pc = "done"])
    /\ UNCHANGED <<premiumSubscriptions, unlock, scheduler, retry, walletSeqno, send, accounts, transactions, referrals, notifications, users, pool, poolConfig, dist, work, now,
                   pc, snap, todo, cur, referrerData, hist, reg, wd>>

\* storage.updateUser(user.referredBy, {appBalance: newReferrerBalance})
DepositUpdateReferrer ==
    /\ dep.pc = "updateReferrer"
    /\ \/ /\ accounts' = [accounts EXCEPT ![dep.referredBy].appBalance = dep.appBalance]
          /\ UNCHANGED faults
       \/ /\ Throws
          /\ UNCHANGED accounts
    /\ SetDep([dep EXCEPT !.pc = "logReferral"])
    /\ UNCHANGED <<premiumSubscriptions, unlock, scheduler, retry, walletSeqno, send, transactions, referrals, notifications, users, pool, poolConfig, dist, work, now,
                   pc, snap, todo, cur, referrerData, hist, reg, wd>>

\* createTransaction({type: 'referral_bonus'})
DepositLogReferral ==
    /\ dep.pc = "logReferral"
    /\ \/ /\ transactions' = AddTransaction(
                 Tx(dep.referredBy, "referral_bonus", dep.bonus, "completed",
                    "Referral reward from new pool member", 0))
          /\ SetDep([dep EXCEPT !.pc = "countReferrals"])
          /\ UNCHANGED faults
       \/ /\ Throws
          /\ SetDep([dep EXCEPT !.pc = "done"])
          /\ UNCHANGED transactions
    /\ UNCHANGED <<premiumSubscriptions, unlock, scheduler, retry, walletSeqno, send, accounts, referrals, notifications, users, pool, poolConfig, dist, work, now,
                   pc, snap, todo, cur, referrerData, hist, reg, wd>>

\* referrerEarnings = await storage.getReferralsByReferrer(user.referredBy),
\* which returns [] when its query throws
DepositCountReferrals ==
    /\ dep.pc = "countReferrals"
    /\ \/ /\ SetDep([dep EXCEPT !.pc = "notify",
                                !.referralCount = ReferralCount(dep.referredBy)])
          /\ UNCHANGED faults
       \/ /\ Throws
          /\ SetDep([dep EXCEPT !.pc = "notify", !.referralCount = 0])
    /\ UNCHANGED <<premiumSubscriptions, unlock, scheduler, retry, walletSeqno, send, accounts, transactions, referrals, notifications, users, pool, poolConfig, dist, work, now,
                   pc, snap, todo, cur, referrerData, hist, reg, wd>>

\* sendReferralBonusNotification and sendWelcomeReferralMessage
DepositNotify ==
    /\ dep.pc = "notify"
    /\ \/ /\ notifications' = notifications \cup
                 {Notification("referral_bonus", dep.referredBy, dep.telegramId),
                  Notification("welcome", dep.telegramId, dep.referredBy)}
          /\ SetDep([dep EXCEPT !.pc = "milestone"])
          /\ UNCHANGED faults
       \/ /\ Throws
          /\ SetDep([dep EXCEPT !.pc = "done"])
          /\ UNCHANGED notifications
    /\ UNCHANGED <<premiumSubscriptions, unlock, scheduler, retry, walletSeqno, send, accounts, transactions, referrals, users, pool, poolConfig, dist, work, now,
                   pc, snap, todo, cur, referrerData, hist, reg, wd>>

\* if (milestones.includes(referralCount)) sendReferralMilestoneNotification
DepositMilestone ==
    /\ dep.pc = "milestone"
    /\ IF dep.referralCount \in Milestones
       THEN \/ /\ notifications' = notifications \cup
                      {Notification("milestone", dep.referredBy, dep.referralCount)}
               /\ UNCHANGED faults
            \/ /\ Throws
               /\ UNCHANGED notifications
       ELSE UNCHANGED <<notifications, faults>>
    /\ SetDep([dep EXCEPT !.pc = "done"])
    /\ UNCHANGED <<premiumSubscriptions, unlock, scheduler, retry, walletSeqno, send, accounts, transactions, referrals, users, pool, poolConfig, dist, work, now,
                   pc, snap, todo, cur, referrerData, hist, reg, wd>>

\* Four referrals of u3 are on record.
PriorReferrals ==
    SetToBag({[referrer |-> "u3", referred |-> "u1", bonus |-> b] :
                 b \in {100000000, 200000000, 300000000, 400000000}})

\* u2, referred by u3, holds its stake.
InitMilestone ==
    /\ users = [u \in Users |->
                  UserDoc(0, 0, IF u = "u3" THEN NoUser ELSE "u3", FALSE, NoTime)]
    /\ InitLocals
    /\ referrals = PriorReferrals
    /\ accounts = [u \in Users |->
                     [NewAccount EXCEPT !.totalStaked =
                                            IF u = "u2" THEN PoolStakes[u] ELSE 0]]
    /\ now = 0

NextMilestone ==
    \/ NextParallel
    \/ \E amount \in DepositChoices : StartDeposit("u2", amount)
    \/ DepositStake
    \/ DepositUpdateUser
    \/ DepositLog
    \/ DepositCreateReferral
    \/ DepositGetReferrer
    \/ DepositUpdateReferrer
    \/ DepositLogReferral
    \/ DepositCountReferrals
    \/ DepositNotify
    \/ DepositMilestone

SpecMilestone == InitMilestone /\ [][NextMilestone]_vars

(***************************************************************************)
(* Sending to the chain.  sendTon, callContract, depositToContract and     *)
(* withdrawFromContract of AdminWallet read the seqno of the wallet, send  *)
(* an external message, and poll the seqno every 1.5 s until it differs    *)
(* from the one they read.                                                 *)
(***************************************************************************)
SendOperations == {"sendTon", "callContract", "depositToContract", "withdrawFromContract"}

SetSend(d) == send' = d

\* a send operation is called; the operations of the model are called one
\* after the other
StartSend(op) ==
    /\ send.pc \in {"idle", "done", "failed"}
    /\ walletSeqno < MaxSeqno
    /\ SetSend([NoSend EXCEPT !.pc = "getSeqno", !.op = op])
    /\ UNCHANGED <<premiumSubscriptions, unlock, scheduler, retry, walletSeqno, faults, users, pool, transactions, referrals, now, pc, snap, todo, cur,
                   referrerData, hist, reg, wd, accounts, poolConfig, dist, work,
                   notifications, dep>>

\* const seqno = await this.walletContract.getSeqno(this.client.provider)
SendGetSeqno ==
    /\ send.pc = "getSeqno"
    /\ \/ /\ SetSend([send EXCEPT !.pc = "sendMessage", !.seqno = walletSeqno])
          /\ UNCHANGED faults
       \/ /\ Throws
          /\ SetSend([send EXCEPT !.pc = "failed"])
    /\ UNCHANGED <<premiumSubscriptions, unlock, scheduler, retry, walletSeqno, users, pool, transactions, referrals, now, pc, snap, todo, cur,
                   referrerData, hist, reg, wd, accounts, poolConfig, dist, work,
                   notifications, dep>>

\* await this.client.sendExternalMessage(this.walletContract, transfer);
\* let currentSeqno = seqno
SendExternalMessage ==
    /\ send.pc = "sendMessage"
    /\ \/ /\ SetSend([send EXCEPT !.pc = "while", !.currentSeqno = send.seqno,
                                  !.pending = TRUE])
          /\ UNCHANGED faults
       \/ /\ Throws
          /\ SetSend([send EXCEPT !.pc = "failed"])
    /\ UNCHANGED <<premiumSubscriptions, unlock, scheduler, retry, walletSeqno, users, pool, transactions, referrals, now, pc, snap, todo, cur,
                   referrerData, hist, reg, wd, accounts, poolConfig, dist, work,
                   notifications, dep>>

\* while (currentSeqno === seqno) { await new Promise(setTimeout 1500) ...
SendWhile ==
    /\ send.pc = "while"
    /\ SetSend([send EXCEPT !.pc = IF send.currentSeqno = send.seqno
                                   THEN "poll" ELSE "done"])
    /\ UNCHANGED <<premiumSubscriptions, unlock, scheduler, retry, walletSeqno, faults, users, pool, transactions, referrals, now, pc, snap, todo, cur,
                   referrerData, hist, reg, wd, accounts, poolConfig, dist, work,
                   notifications, dep>>

\* ... currentSeqno = await this.walletContract.getSeqno(this.client.provider) }
SendPoll ==
    /\ send.pc = "poll"
    /\ \/ /\ SetSend([send EXCEPT !.pc = "while", !.currentSeqno = walletSeqno])
          /\ UNCHANGED faults
       \/ /\ Throws
          /\ SetSend([send EXCEPT !.pc = "failed"])
    /\ UNCHANGED <<premiumSubscriptions, unlock, scheduler, retry, walletSeqno, users, pool, transactions, referrals, now, pc, snap, todo, cur,
                   referrerData, hist, reg, wd, accounts, poolConfig, dist, work,
                   notifications, dep>>

\* The chain processes the message: the seqno of the wallet advances.
Confirm ==
    /\ send.pending
    /\ walletSeqno = send.seqno
    /\ walletSeqno' = walletSeqno + 1
    /\ SetSend([send EXCEPT !.pending = FALSE])
    /\ UNCHANGED <<premiumSubscriptions, unlock, scheduler, retry, faults, users, pool, transactions, referrals, now, pc, snap, todo, cur,
                   referrerData, hist, reg, wd, accounts, poolConfig, dist, work,
                   notifications, dep>>

InitSend ==
    /\ users = [u \in Users |-> NewUser]
    /\ InitCollections
    /\ now = 0

\* the steps of the operation itself
SendSteps ==
    \/ SendGetSeqno
    \/ SendExternalMessage
    \/ SendWhile
    \/ SendPoll

NextSend ==
    \/ \E op \in SendOperations : StartSend(op)
    \/ SendSteps
    \/ Confirm

\* Every call of the operation to the provider returns or throws, and its
\* timer fires.  Nothing is assumed of the chain: Confirm has no fairness
\* condition.
SpecSend == InitSend /\ [][NextSend]_vars /\ WF_vars(SendSteps)

(***************************************************************************)
(* Reading the ledger.                                                     *)
(***************************************************************************)
\* the documents of `transactions` of one type written for user u by run r
TxOf(r, u, type) ==
    {t \in BagToSet(transactions) : t.run = r /\ t.userId = u /\ t.type = type}

\* how many `reward` documents of day d the collection holds for user u
RewardCount(u, d) ==
    BagCardinality([t \in {x \in BagToSet(transactions) :
                             x.userId = u /\ x.type = "reward" /\ x.day = d}
                      |-> CopiesIn(t, transactions)])

\* the exact sum of the exact values f[x], x in S
RECURSIVE ExactSum(_, _)
ExactSum(f, S) ==
    IF S = {} THEN ExactNat(0)
    ELSE LET x == CHOOSE y \in S : TRUE
         IN  ExactAdd(f[x], ExactSum(f, S \ {x}))

(***************************************************************************)
(* C1  Idempotence: a run invoked after a run of the same day has          *)
(* completed writes nothing, and no account holds more than one reward     *)
(* transaction of that day.                                                *)
(***************************************************************************)
SameDayAfter(r) == {q \in hist[r].after : hist[q].day = hist[r].day}

C1_SecondRunIsNoOp ==
    \A r \in Runs :
        (hist[r].started /\ SameDayAfter(r) # {}) =>
            /\ ~hist[r].wrote
            /\ \A u \in Users : RewardCount(u, hist[r].day) <= 1

(***************************************************************************)
(* C2  Overlap guard: a run that starts while another run of the same day  *)
(* is in progress writes nothing, so no account is rewarded by both.       *)
(***************************************************************************)
SameDayDuring(r) == {q \in hist[r].during : hist[q].day = hist[r].day}

C2_OverlappingRunAborts ==
    \A r \in Runs :
        (hist[r].started /\ SameDayDuring(r) # {}) =>
            /\ ~hist[r].wrote
            /\ \A q \in SameDayDuring(r) :
                   hist[q].credited \cap hist[r].credited = {}

(***************************************************************************)
(* C3  Conservation: for a completed run, the net rewards written to the   *)
(* ledger (the 9-digit amounts of its reward transactions) plus the        *)
(* commissions withheld from the same accounts equal their gross rewards.  *)
(***************************************************************************)
Rewarded(r) == {u \in Users : TxOf(r, u, "reward") # {}}

\* the amounts of the reward transactions of run r, in nano units
LedgerNet(r) ==
    [u \in Rewarded(r) |-> ExactNat((CHOOSE t \in TxOf(r, u, "reward") : TRUE).amount)]

C3_Conservation ==
    \A r \in Runs :
        pc[r] = "done" =>
            ExactEq(ExactAdd(ExactSum(LedgerNet(r), Rewarded(r)),
                             ExactSum([u \in Rewarded(r) |->
                                          ScaleNano(hist[r].calc[u].adminCommission)],
                                      Rewarded(r))),
                    ExactSum([u \in Rewarded(r) |-> ScaleNano(hist[r].calc[u].userReward)],
                             Rewarded(r)))

(***************************************************************************)
(* C4  Referral cascade: the write that credits the referrer of a rewarded *)
(* account raises the referrer's rewardsBalance and totalEarnings by       *)
(* exactly one tenth of the account's net reward, and when the cascade     *)
(* returns the ledger holds exactly one referral transaction and one       *)
(* Referral record for it.                                                 *)
(***************************************************************************)
C4_ReferralCascade ==
    [][\A r \in Runs :
          LET b == CurUser(r).referredBy
              \* 100 times the share of the net reward, in nano units
              share == ExactMulNat(ScaleNano(hist[r].calc[cur[r].user].netUserReward),
                                   ReferralPercent)
          IN  /\ (pc[r] = "referrerCredit" /\ pc'[r] = "referrerLog") =>
                    /\ ExactEq(ExactNat(100 * (users'[b].rewardsBalance
                                                 - users[b].rewardsBalance)), share)
                    /\ ExactEq(ExactNat(100 * (users'[b].totalEarnings
                                                 - users[b].totalEarnings)), share)
              /\ (pc[r] = "referrerLog" /\ pc'[r] = "next") =>
                    /\ Cardinality({t \in BagToSet(transactions') :
                                      /\ t.run = r /\ t.type = "referral"
                                      /\ t.userId = b /\ t.description = cur[r].user}) = 1
                    /\ Cardinality({f \in BagToSet(referrals') :
                                      f.referrer = b /\ f.referred = cur[r].user}) = 1
      ]_vars

(***************************************************************************)
(* C5  Partial failure isolation: a completed run in which the call for    *)
(* one account threw has credited and logged the reward of every other     *)
(* account of its snapshot, and reports one failed account.                *)
(***************************************************************************)
\* what a run leaves behind about failures: its transactions of status
\* 'failed' (distributeRewards itself resolves to void)
FailedTx(r) == {t \in BagToSet(transactions) : t.run = r /\ t.status = "failed"}

AccountsFailedReported(r) == Cardinality({t.userId : t \in FailedTx(r)})

C5_PartialFailureIsolation ==
    \A r \in Runs :
        (pc[r] = "done" /\ Cardinality(hist[r].failed) = 1) =>
            /\ \A u \in SeqToSet(UsersWithStakes(snap[r])) \ hist[r].failed :
                   u \in hist[r].credited /\ TxOf(r, u, "reward") # {}
            /\ AccountsFailedReported(r) = 1

(***************************************************************************)
(* C6  Failure audit record: every account whose call threw has a          *)
(* transaction of status 'failed', and such a throw never makes the run    *)
(* itself fail.                                                            *)
(***************************************************************************)
C6_FailureAudit ==
    \A r \in Runs :
        /\ \A u \in hist[r].failed : \E t \in FailedTx(r) : t.userId = u
        /\ pc[r] = "failed" => (cur[r] = NoCur /\ todo[r] = <<>>)

(***************************************************************************)
(* C7  Atomic downgrade: for an account the run found with an expired      *)
(* premium, the premium flag is cleared exactly when the reward is         *)
(* credited, in every reachable state.                                     *)
(***************************************************************************)
C7_AtomicDowngrade ==
    \A r \in Runs :
        \A u \in hist[r].expired :
            (u \in hist[r].downgraded) <=> (u \in hist[r].credited)

(***************************************************************************)
(* C8  Rate resolution: the reward a run credits to an account is accrued  *)
(* at the premium rate (10.5%) exactly when the account's snapshot has     *)
(* isPremium set and premiumExpiresAt unset or strictly later than the     *)
(* time the run read, and at the standard rate (8.7%) in every other case. *)
(***************************************************************************)
NetAtRate(stake, perMille) ==
    LET gross == FMul(ParseFloat(stake),
                      FDivSmall(FromDecimal(perMille, 3), DaysPerYear))
    IN  FSub(gross, FMul(gross, FromDecimal(CommissionPercent, 2)))

C8_RateResolution ==
    \A r \in Runs :
        pc[r] = "logReward" =>
            LET s == snap[r][cur[r].user]
                active == /\ s.isPremium
                          /\ (s.premiumExpiresAt = NoTime \/ s.premiumExpiresAt > cur[r].now)
                rate == IF active THEN PremiumApyPerMille ELSE StandardApyPerMille
            IN  /\ cur[r].isPremium = active
                /\ users[cur[r].user].rewardsBalance
                     = ToFixed9(FAdd(ParseFloat(s.rewardsBalance),
                                     NetAtRate(s.stakedAmount, rate)))
                /\ users[cur[r].user].totalEarnings
                     = ToFixed9(FAdd(ParseFloat(s.totalEarnings),
                                     NetAtRate(s.stakedAmount, rate)))

\* a reward credited at the standard rate to an account whose premium
\* expires at the very instant the run read the clock
C8_Witness ==
    \E r \in Runs :
        /\ pc[r] = "logReward"
        /\ snap[r][cur[r].user].isPremium
        /\ snap[r][cur[r].user].premiumExpiresAt = cur[r].now
        /\ ~cur[r].isPremium

(***************************************************************************)
(* C9  Premium differential: of two accounts of one run with the same      *)
(* stake S, one resolved premium and one standard, the premium account's   *)
(* gross reward exceeds the other's by exactly S * (10.5 - 8.7) / 100 /    *)
(* 365, the expression evaluated as the program's numbers are.             *)
(***************************************************************************)
PremiumPair(r, u, v) ==
    /\ u \in DOMAIN hist[r].calc
    /\ v \in DOMAIN hist[r].calc
    /\ snap[r][u].stakedAmount = snap[r][v].stakedAmount
    /\ hist[r].calc[u].isPremium
    /\ ~hist[r].calc[v].isPremium

C9_PremiumDifferential ==
    \A r \in Runs : \A u, v \in Users :
        PremiumPair(r, u, v) =>
            FSub(hist[r].calc[u].userReward, hist[r].calc[v].userReward)
              = FDivSmall(FDivSmall(FMul(ParseFloat(snap[r][u].stakedAmount),
                                         FSub(FromDecimal(105, 1), FromDecimal(87, 1))),
                                    100),
                          365)

(***************************************************************************)
(* C10  Proportional correctness: two accounts rewarded in one run with    *)
(* equal stakes and the same resolved rate get the same 9-digit net        *)
(* reward: the same reward transaction amount and the same increase of     *)
(* rewardsBalance over the balance the run read.                           *)
(***************************************************************************)
EqualPair(r, u, v) ==
    /\ u # v
    /\ u \in Rewarded(r)
    /\ v \in Rewarded(r)
    /\ snap[r][u].stakedAmount = snap[r][v].stakedAmount
    /\ hist[r].calc[u].isPremium = hist[r].calc[v].isPremium

C10_ProportionalCorrectness ==
    \A r \in Runs : \A u, v \in Users :
        EqualPair(r, u, v) =>
            /\ \A t1 \in TxOf(r, u, "reward"), t2 \in TxOf(r, v, "reward") :
                   t1.amount = t2.amount
            /\ hist[r].calc[u].newRewardsBalance - snap[r][u].rewardsBalance
                 = hist[r].calc[v].newRewardsBalance - snap[r][v].rewardsBalance

(***************************************************************************)
(* C11  Self-referral rejection: a registration whose referral code        *)
(* resolves to the requesting account itself is answered with a rejection  *)
(* and changes no account document, and in every reachable state no        *)
(* account has referredBy equal to its own id.                             *)
(***************************************************************************)
\* request q has just resolved its code to the requesting account
ResolvesToSelf(q) ==
    /\ reg[q].pc # "idle"
    /\ reg[q].referrerId = NoUser
    /\ reg'[q].referrerId = reg[q].userId

C11_SelfReferralRejected ==
    /\ [](\A u \in Users : users[u].referredBy # u)
    /\ [][\A q \in Regs :
             ResolvesToSelf(q) =>
                 /\ reg'[q].pc = "done"
                 /\ reg'[q].result = "rejected"
                 /\ users' = users]_vars

\* a request of either handler that was rejected for naming its own account
C11_Witness ==
    /\ \E q \in Regs : /\ reg[q].pc = "done"
                       /\ reg[q].referrerId = reg[q].userId
                       /\ reg[q].result = "rejected"
                       /\ ~reg[q].hadReferrer
    /\ \A u \in Users : users[u].referredBy # u

(***************************************************************************)
(* C12  referredBy is set at most once: no step changes the referredBy of  *)
(* an account that already has a referrer.                                 *)
(***************************************************************************)
C12_ReferredBySetOnce ==
    [][\A u \in Users :
          users[u].referredBy # NoUser => users'[u].referredBy = users[u].referredBy]_vars

(***************************************************************************)
(* C13  Referral forest: following referredBy from any account never leads *)
(* back to that account, in every reachable state.                         *)
(***************************************************************************)
\* the account n steps up the referredBy chain of u, or NoUser
RECURSIVE ReferrerAt(_, _)
ReferrerAt(u, n) ==
    IF n = 0 THEN u
    ELSE IF ReferrerAt(u, n - 1) = NoUser THEN NoUser
    ELSE users[ReferrerAt(u, n - 1)].referredBy

C13_ReferralForest ==
    \A u \in Users : \A n \in 1..Cardinality(Users) : ReferrerAt(u, n) # u

(***************************************************************************)
(* C14  totalEarnings never decreases: no ledger write of a distribution   *)
(* run or of a referral bonus credit lowers the totalEarnings of an        *)
(* account.                                                                *)
(***************************************************************************)
C14_TotalEarningsMonotonic ==
    [][\A u \in Users : users'[u].totalEarnings >= users[u].totalEarnings]_vars

(***************************************************************************)
(* C15  Snapshot staleness within a run: after a run that ran alone and    *)
(* in which no store call threw, a staking account that was credited       *)
(* referral bonuses during the run holds its balance of before the run     *)
(* plus its own net reward plus those bonuses.                             *)
(***************************************************************************)
\* the sum of the amounts of a set of transaction documents of the ledger
RECURSIVE AmountTotal(_)
AmountTotal(T) ==
    IF T = {} THEN 0
    ELSE LET t == CHOOSE x \in T : TRUE
         IN  t.amount * CopiesIn(t, transactions) + AmountTotal(T \ {t})

RanAlone(r) ==
    /\ pc[r] = "done"
    /\ faults = 0
    /\ \A q \in Runs \ {r} : pc[q] = "idle"

C15_StakingReferrerKeepsBonus ==
    \A r \in Runs : \A b \in Users :
        (RanAlone(r) /\ TxOf(r, b, "reward") # {} /\ TxOf(r, b, "referral") # {}) =>
            users[b].rewardsBalance
              = snap[r][b].rewardsBalance + AmountTotal(TxOf(r, b, "reward"))
                  + AmountTotal(TxOf(r, b, "referral"))

(***************************************************************************)
(* C19  Cascade ordering: a run reads or writes the referrer of an account *)
(* only after it has committed the account's own reward write, and an      *)
(* account whose own reward write failed earns its referrer no bonus in    *)
(* that run.                                                               *)
(***************************************************************************)
CascadeLabels == {"referrer", "referrerCredit", "referrerLog"}

\* the referral transactions run r has logged
ReferralTx(r) == {t \in BagToSet(transactions) : t.run = r /\ t.type = "referral"}

C19_CascadeAfterOwnCredit ==
    \A r \in Runs :
        /\ pc[r] \in CascadeLabels => cur[r].user \in hist[r].credited
        /\ \A t \in ReferralTx(r) : t.description \in hist[r].credited

\* a completed run in which the reward write of a referred account threw
\* and the referrer of another account was paid its bonus
C19_Witness ==
    \E r \in Runs :
        /\ pc[r] = "done"
        /\ \E u \in hist[r].failed \ hist[r].credited : snap[r][u].referredBy # NoUser
        /\ ReferralTx(r) # {}
        /\ \A t \in ReferralTx(r) : t.description \in hist[r].credited

(***************************************************************************)
(* C20  Single-level, commission-free referral.  As stated: the bonus      *)
(* logged for a referrer is exactly 0.10 times the net reward of the       *)
(* referred account, and is paid for a reward only, never for a bonus.     *)
(***************************************************************************)
\* the net reward run r computed for the referred account of t, in nano
\* units, without rounding
RefereeNet(r, t) == ScaleNano(hist[r].calc[t.description].netUserReward)

\* a bonus is paid to the referrer of an account for the account's own
\* reward of the same run, once
SingleLevel(r, t) ==
    /\ TxOf(r, t.description, "reward") # {}
    /\ t.userId = snap[r][t.description].referredBy
    /\ CopiesIn(t, transactions) = 1

C20_BonusExactSingleLevel ==
    \A r \in Runs : \A t \in ReferralTx(r) :
        /\ ExactEq(ExactNat(10 * t.amount), RefereeNet(r, t))
        /\ SingleLevel(r, t)

(***************************************************************************)
(* C20 (amended)  The bonus logged for a referrer is 0.10 times the net    *)
(* reward of the referred account, with no commission deducted, rounded to *)
(* the nearest amount of 9 fraction digits, and is paid for a reward only, *)
(* never for a bonus.                                                      *)
(***************************************************************************)
C20_BonusRoundedSingleLevel ==
    \A r \in Runs : \A t \in ReferralTx(r) :
        /\ ExactLeq(ExactNat(10 * t.amount), ExactAdd(RefereeNet(r, t), ExactNat(5)))
        /\ ExactLeq(RefereeNet(r, t), ExactNat(10 * t.amount + 5))
        /\ SingleLevel(r, t)

\* u2 holds no stake and was paid a bonus for the reward of u1; its own
\* referrer u3 was paid none in that run
C20_Witness ==
    \E r \in Runs :
        /\ pc[r] = "done"
        /\ \E t \in ReferralTx(r) :
               /\ t.amount > 0
               /\ snap[r][t.userId].referredBy # NoUser
               /\ snap[r][t.userId].stakedAmount = 0
               /\ \A x \in ReferralTx(r) : x.userId # snap[r][t.userId].referredBy

(***************************************************************************)
(* C16  No lost update: when a withdrawal of an account has committed      *)
(* after a run read its snapshot and before the run writes the reward of   *)
(* that account, the reward write adds the net reward to the balance the   *)
(* store holds and leaves the stake the withdrawal wrote: the account then *)
(* reflects both the withdrawal and the reward.                            *)
(***************************************************************************)
\* the run r writes the reward of the account of the committed withdrawal w
RewardWriteAfter(r, w) ==
    /\ pc[r] = "credit"
    /\ pc'[r] = "logReward"
    /\ wd[w].committed
    /\ wd[w].userId = cur[r].user
    /\ r \in wd[w].during

C16_NoLostUpdate ==
    [][\A r \in Runs, w \in Withdrawals :
          RewardWriteAfter(r, w) =>
              LET u == cur[r].user IN
                 /\ users'[u].stakedAmount = users[u].stakedAmount
                 /\ users'[u].rewardsBalance =
                        AddFixed9(users[u].rewardsBalance, CurNet(r))]_vars

(***************************************************************************)
(* C17  Shared referrer under parallel application: when the callbacks of  *)
(* two accounts referred by the same referrer have both ended and no call  *)
(* has thrown, the referrer's appBalance is the balance the distribution   *)
(* found plus both referral bonuses, added in one order or the other.      *)
(***************************************************************************)
\* the callbacks of a and b, two accounts with the same referrer, have ended
BothCredited(a, b) ==
    /\ a # b
    /\ users[a].referredBy # NoUser
    /\ users[a].referredBy = users[b].referredBy
    /\ work[a].pc = "fulfilled" /\ work[a].userReward # Zero
    /\ work[b].pc = "fulfilled" /\ work[b].userReward # Zero
    /\ faults = 0

\* balance + first + second, each sum written with toFixed(9)
AddBoth(balance, first, second) == AddFixed9(AddFixed9(balance, first), second)

C17_SharedReferrerGetsBoth ==
    \A a, b \in Users :
        BothCredited(a, b) =>
            accounts[users[a].referredBy].appBalance
                \in { AddBoth(dist.usersSnapshot[users[a].referredBy].appBalance,
                              ReferralBonus(work[x].userReward),
                              ReferralBonus(work[y].userReward)) :
                        <<x, y>> \in {<<a, b>>, <<b, a>>} }

(***************************************************************************)
(* C18  Checkpoint after barrier: a distribution that reached the account  *)
(* callbacks writes pool/config exactly once (unless that write itself     *)
(* throws), and writes it only when every reward write of the              *)
(* distribution has committed or failed, also when an account write fails. *)
(***************************************************************************)
\* the distribution has ended after it started the callbacks
EndedAfterApplication == dist.applied /\ dist.pc \in {"done", "failed"}

C18_CheckpointAfterBarrier ==
    /\ poolConfig.writes <= 1
    /\ poolConfig.pending = {}
    /\ EndedAfterApplication /\ ~dist.configThrew => poolConfig.writes = 1

(***************************************************************************)
(* C21  Missing referrer: when the referrer of a rewarded account has no   *)
(* document, the cascade is skipped: the step that resolves the referrer   *)
(* creates no account, credits none and appends no transaction, and the    *)
(* run goes on with the next account.                                      *)
(***************************************************************************)
\* the run r is about to resolve a referrer that does not exist
ReferrerMissing(r) == pc[r] = "referrer" /\ ~users[CurUser(r).referredBy].exists

C21_MissingReferrerSkipped ==
    [][\A r \in Runs :
          ReferrerMissing(r) =>
              /\ users' = users
              /\ transactions' = transactions
              /\ pc'[r] = "next"]_vars

(***************************************************************************)
(* C22  No-op runs: a run that finds no staking accounts or a zero total   *)
(* stake, and a yield-driven run whose gross yield is not positive,        *)
(* returns normally and leaves every balance, the transaction log, the     *)
(* referral log and the pool records unchanged.                            *)
(***************************************************************************)
\* balances, logs and pool records
Stores == <<users, accounts, transactions, referrals, pool, poolConfig>>

\* distributeRewards finds nothing to distribute
NoStakes == \/ Len(UsersWithStakes(users)) = 0
            \/ SumStakes(users, UsersWithStakes(users)) = Zero

\* the step of run r that reads the accounts, when the read does not throw
RunReads(r) == pc[r] = "idle" /\ pc'[r] # "idle" /\ faults' = faults

\* the steps of calculateAndDistributeRewards that fetch the yield and read
\* the accounts, when they do not throw
YieldFetched == dist.pc = "idle" /\ dist'.pc # "idle" /\ faults' = faults
AccountsRead == dist.pc = "getDocs" /\ dist'.pc # "getDocs" /\ faults' = faults

C22_NoOpRunChangesNothing ==
    [][/\ \A r \in Runs :
             RunReads(r) /\ NoStakes => pc'[r] = "done" /\ UNCHANGED Stores
       /\ YieldFetched /\ dist'.grossRewards <= 0 =>
             dist'.pc = "done" /\ UNCHANGED Stores
       /\ AccountsRead /\ SumTotalStaked(accounts, UserIds) = Zero =>
             dist'.pc = "done" /\ UNCHANGED Stores]_vars

\* both kinds of run ended without anything to distribute
C22_Witness ==
    /\ \E r \in Runs : pc[r] = "done"
    /\ dist.pc = "done" /\ ~dist.applied
    /\ transactions = EmptyBag /\ poolConfig = NoConfig

(***************************************************************************)
(* C23  Invalid stake rejection: an account whose stakedAmount is negative *)
(* or not finite receives no balance write and no completed reward         *)
(* transaction, and is counted as failed.                                  *)
(***************************************************************************)
\* the stake of u is a number that can be rewarded
ValidStake(u) ==
    users[u].stakedAmount >= 0 /\ IsFinite(ParseFloat(users[u].stakedAmount))

\* the completed reward transactions of u
CompletedRewards(u) ==
    {t \in BagToSet(transactions) :
        t.userId = u /\ t.type = "reward" /\ t.status = "completed"}

C23_InvalidStakeRejected ==
    \A u \in Users :
        ~ValidStake(u) =>
            /\ users[u].rewardsBalance = InvalidStake[u].rewardsBalance
            /\ users[u].totalEarnings = InvalidStake[u].totalEarnings
            /\ CompletedRewards(u) = {}
            /\ \A r \in Runs : u \notin hist[r].credited

(***************************************************************************)
(* C24  Single credit destination: a reward credit raises exactly one of   *)
(* the stake and the rewards balance of the account (with the total        *)
(* earned), never both, and distributeRewards leaves every stakedAmount    *)
(* unchanged.                                                              *)
(***************************************************************************)
\* the steps that write the reward of an account
RunCredits(r) == pc[r] = "credit" /\ pc'[r] = "logReward"
WorkCredits(u) == work[u].pc = "update" /\ work'[u].pc = "log"

C24_SingleCreditDestination ==
    [][/\ \A u \in Users : users'[u].stakedAmount = users[u].stakedAmount
       /\ \A r \in Runs :
             RunCredits(r) =>
                /\ users'[cur[r].user].rewardsBalance # users[cur[r].user].rewardsBalance
                /\ users'[cur[r].user].totalEarnings # users[cur[r].user].totalEarnings
                /\ accounts' = accounts
       /\ \A u \in Users :
             WorkCredits(u) =>
                /\ accounts'[u].totalStaked > accounts[u].totalStaked
                /\ accounts'[u].totalEarned > accounts[u].totalEarned
                /\ accounts'[u].appBalance = accounts[u].appBalance
                /\ users' = users]_vars

\* u1 was credited by both jobs
C24_Witness ==
    /\ \E r \in Runs : "u1" \in hist[r].credited
    /\ accounts["u1"].totalStaked > PoolStakes["u1"]
    /\ users["u1"].rewardsBalance > 100000000

(***************************************************************************)
(* C25  Commission checkpoint: after a completed run the commission figure *)
(* of the pool record equals the sum of the commissions of the accounts    *)
(* the run credited.                                                       *)
(***************************************************************************)
\* the sum of adminCommission over the accounts of q that run r credited
RECURSIVE CommissionSum(_, _)
CommissionSum(r, q) ==
    IF q = <<>> THEN Zero
    ELSE IF Head(q) \in hist[r].credited
    THEN FAdd(hist[r].calc[Head(q)].adminCommission, CommissionSum(r, Tail(q)))
    ELSE CommissionSum(r, Tail(q))

\* run 1 has completed and no other run has started
FirstRunCompleted == pc[1] = "done" /\ \A r \in Runs \ {1} : pc[r] = "idle"

C25_CommissionCheckpoint ==
    FirstRunCompleted => pool.adminCommission = ToFixed9(CommissionSum(1, UserIds))

(***************************************************************************)
(* C26  Run-level abort: a run that cannot read the account set ends in    *)
(* failure without modifying a balance or a pool record and without        *)
(* appending a completed transaction.                                      *)
(***************************************************************************)
\* the completed documents of a transactions collection
CompletedTx(b) == [t \in {x \in DOMAIN b : x.status = "completed"} |-> b[t]]

\* balances, pool records and completed transactions are as they were
NothingCommitted ==
    /\ UNCHANGED <<premiumSubscriptions, unlock, scheduler, retry, walletSeqno, send, dep, notifications, users, accounts, pool, poolConfig, referrals>>
    /\ CompletedTx(transactions') = CompletedTx(transactions)

\* the read of the account set throws
RunReadThrows(r) == pc[r] = "idle" /\ pc'[r] # "idle" /\ faults' # faults
AccountsReadThrows == dist.pc = "getDocs" /\ dist' # dist /\ faults' # faults

\* calculateAndDistributeRewards is in its catch and started no callback
AbortedBeforeCallbacks == dist.pc = "catch" /\ ~dist.applied /\ dist' # dist

RewardLogged(r, u) ==
    /\ u \in DOMAIN hist[r].calc
    /\ \E t \in TxOf(r, u, "reward") :
          /\ t.status = "completed"
          /\ t.amount = ToFixed9(hist[r].calc[u].netUserReward)

C27_AuditComplete ==
    (\A q \in Runs : ~InProgress(q)) =>
        \A r \in Runs : \A u \in Users :
            u \in hist[r].credited <=> RewardLogged(r, u)

(***************************************************************************)
(* C29  Notifications off the critical path: no balance write of a run     *)
(* waits for the dispatch of a notification.  There is no state in which   *)
(* the pool checkpoint is unwritten and every callback that has not ended  *)
(* is waiting for its dispatch to return or throw.                         *)
(***************************************************************************)
\* the callback of u awaits sendDailyRewardsNotification
AwaitsDispatch(u) == work[u].pc = "notify"

\* Promise.all is pending on dispatches alone
WaitsOnlyForDispatch ==
    /\ dist.pc = "all"
    /\ \E u \in Users : AwaitsDispatch(u)
    /\ \A u \in Users : AwaitsDispatch(u) \/ work[u].pc \in {"none", "fulfilled"}

C29_NotificationsOffCriticalPath == ~WaitsOnlyForDispatch

(***************************************************************************)
(* C28  Milestone detection: a milestone notification is emitted to an     *)
(* account exactly when a referral bonus brings its number of referral     *)
(* records to 5, 10, 25, 50 or 100, whether the bonus comes from a deposit *)
(* or from a distribution run.  Stated when no handler is in progress and  *)
(* no call has failed.                                                     *)
(***************************************************************************)
\* neither the distribution nor the deposit is in progress
NoHandlerInProgress ==
    /\ dist.pc \in {"idle", "done", "failed"}
    /\ dep.pc \in {"idle", "done", "failed"}
    /\ \A u \in Users : work[u].pc \in {"none", "fulfilled", "rejected"}

\* a referral bonus has brought the number of referral records of b to n
CountReached(b, n) ==
    /\ BagCardinality(PriorReferrals) < n
    /\ n <= ReferralCount(b)

C28_MilestoneDetection ==
    NoHandlerInProgress /\ faults = 0 =>
        \A n \in Milestones :
            CountReached("u3", n) <=> Notification("milestone", "u3", n) \in notifications

(***************************************************************************)
(* C30  Bounded waiting: a send operation that has been called eventually  *)
(* returns or throws, even if the seqno of the wallet never advances.      *)
(***************************************************************************)
SendInProgress == send.pc \in {"getSeqno", "sendMessage", "while", "poll"}

C30_BoundedWaiting == SendInProgress ~> (send.pc \in {"done", "failed"})

(***************************************************************************)
(* C31  Deposit is additive: when a deposit has returned successfully and  *)
(* nothing else has written the account, the stake of the account is the   *)
(* stake before the deposit plus the amount deposited.                     *)
(***************************************************************************)
\* processDeposit has returned {success: true} and no distribution has run
DepositSucceededAlone == dep.pc = "done" /\ dist.pc = "idle"

C31_DepositAdditive ==
    DepositSucceededAlone =>
        accounts[dep.telegramId].totalStaked = dep.totalStaked + dep.amount

(***************************************************************************)
(* C32  Withdrawal conserves value: the balance write of a withdrawal of   *)
(* amount w, on an account nobody wrote since the withdrawal read it,      *)
(* lowers stakedAmount + rewardsBalance by exactly w, takes w from         *)
(* rewardsBalance first and from stakedAmount only the remainder, and      *)
(* leaves both balances at or above zero.                                  *)
(***************************************************************************)
\* the balances of the account are those the withdrawal w read
AsRead(w) ==
    /\ users[wd[w].userId].stakedAmount = wd[w].userData.stakedAmount
    /\ users[wd[w].userId].rewardsBalance = wd[w].userData.rewardsBalance

\* the step commits the balance write of the withdrawal w
Commits(w) == ~wd[w].committed /\ wd'[w].committed

Conserves(before, after, w) ==
    /\ after.stakedAmount + after.rewardsBalance
           = before.stakedAmount + before.rewardsBalance - w
    /\ after.rewardsBalance
           = IF w <= before.rewardsBalance THEN before.rewardsBalance - w ELSE 0
    /\ after.stakedAmount >= 0
    /\ after.rewardsBalance >= 0

Exceeds(w) ==
    /\ wd[w].pc = "get"
    /\ wd[w].amount > users[wd[w].userId].stakedAmount
                      + users[wd[w].userId].rewardsBalance

SameBalances(u) ==
    /\ users'[u].stakedAmount = users[u].stakedAmount
    /\ users'[u].rewardsBalance = users[u].rewardsBalance

C33_InsufficientBalanceRejected ==
    [][\A w \in Withdrawals :
          Exceeds(w) /\ wd'[w] # wd[w] =>
              /\ wd'[w].pc = "done"
              /\ wd'[w].error # "none"
              /\ ~wd'[w].committed
              /\ SameBalances(wd[w].userId)
              /\ transactions' = transactions]_vars

\* a withdrawal of more than the account held was refused
C33_Witness ==
    \E w \in Withdrawals :
        /\ wd[w].pc = "done"
        /\ wd[w].error = "Insufficient balance"
        /\ wd[w].userData.stakedAmount > 0
        /\ wd[w].amount > wd[w].userData.stakedAmount + wd[w].userData.rewardsBalance
        /\ users[wd[w].userId].stakedAmount = wd[w].userData.stakedAmount

(***************************************************************************)
(* C34  No double spend: the amounts of two withdrawals of one account     *)
(* that both committed never add up to more than the stakedAmount +        *)
(* rewardsBalance the account held before the requests.                    *)
(***************************************************************************)
\* stakedAmount + rewardsBalance of the account before any request
HeldBefore(u) == ReferrerStakes[u].stakedAmount + ReferrerStakes[u].rewardsBalance

C34_NoDoubleSpend ==
    \A v, w \in Requests :
        /\ v # w
        /\ wd[v].committed
        /\ wd[w].committed
        /\ wd[v].userId = wd[w].userId
        => wd[v].amount + wd[w].amount <= HeldBefore(wd[v].userId)

(***************************************************************************)
(* Premium unlock.  POST /premium/unlock creates a pending subscription,   *)
(* verifies the payment among the transactions of the admin wallet and,    *)
(* when it is valid, sets the premium status of the user and logs it.      *)
(***************************************************************************)
DaysPerMonth == 30
\* price of the subscription, '2.0' TON, in hundredths of a TON
PremiumPrice == 200

\* the transactions of the admin wallet address that toncenter returns:
\* a payment of 2 TON, a payment of 1 TON and an outgoing transfer of 2 TON
ChainTransactions ==
    {[hash |-> "paid", internal |-> TRUE, coins |-> 2000000000],
     [hash |-> "cheap", internal |-> TRUE, coins |-> 1000000000],
     [hash |-> "out", internal |-> FALSE, coins |-> 2000000000]}

\* the txHash of a request: a hash of the list above, or none of them
TxHashes == {"paid", "cheap", "out", "absent"}

\* (coins / 1e9).toFixed(2), in hundredths
ToFixed2(coins) == (coins + 5000000) \div 10000000

\* Math.abs(amount - requiredAmount) < 0.01 on doubles
NearAmount(amount, requiredAmount) ==
    LET diff == IF ExactLeq(requiredAmount, amount)
                THEN FSub(amount, requiredAmount)
                ELSE FSub(requiredAmount, amount)
    IN  ~ExactLeq(FromDecimal(1, 2), diff)

\* verifyPremiumPayment(txHash, expectedAmount): some transaction of the
\* list has the hash, an internal incoming message and the amount
VerifyPremiumPayment(txHash, expectedAmount) ==
    \E tx \in ChainTransactions :
        /\ tx.hash = txHash
        /\ tx.internal
        /\ NearAmount(FromDecimal(ToFixed2(tx.coins), 2), FromDecimal(expectedAmount, 2))

SetUnlock(k, d) == unlock' = [unlock EXCEPT ![k] = d]

\* res.status(code).json(...)
Answer(k, code) == SetUnlock(k, [unlock[k] EXCEPT !.pc = "done", !.status = code])

\* the request arrives: expiresAt is one month from now
StartUnlock(k, telegramId, txHash) ==
    /\ unlock[k].pc = "idle"
    /\ \A j \in Unlocks : j < k => unlock[j].pc # "idle"
    /\ SetUnlock(k, [NoUnlock EXCEPT !.pc = "create", !.telegramId = telegramId,
                                     !.txHash = txHash,
                                     !.expiresAt = now + DaysPerMonth * TicksPerDay])
    /\ UNCHANGED <<premiumSubscriptions, scheduler, retry, walletSeqno, send, dep,
                   notifications, accounts, poolConfig, dist, work, wd, reg, referrals,
                   users, pool, transactions, now, faults, pc, snap, todo, cur,
                   referrerData, hist>>

\* createPremiumSubscription({telegramId, txHash, status: 'pending', ...})
UnlockCreateSubscription(k) ==
    /\ unlock[k].pc = "create"
    /\ \/ /\ premiumSubscriptions' = premiumSubscriptions (+) SetToBag({
                 [telegramId |-> unlock[k].telegramId, txHash |-> unlock[k].txHash,
                  status |-> "pending", expiresAt |-> unlock[k].expiresAt]})
          /\ SetUnlock(k, [unlock[k] EXCEPT !.pc = "verify"])
          /\ UNCHANGED faults
       \/ /\ Throws
          /\ Answer(k, 500)
          /\ UNCHANGED premiumSubscriptions
    /\ UNCHANGED <<scheduler, retry, walletSeqno, send, dep, notifications, accounts,
                   poolConfig, dist, work, wd, reg, referrals, users, pool,
                   transactions, now, pc, snap, todo, cur, referrerData, hist>>

\* isValid = await verifyPremiumPayment(txHash, '2.0'); a throw of
\* getTransactions is caught there and gives false
UnlockVerify(k) ==
    /\ unlock[k].pc = "verify"
    /\ \/ /\ IF VerifyPremiumPayment(unlock[k].txHash, PremiumPrice)
             THEN SetUnlock(k, [unlock[k] EXCEPT !.pc = "update", !.isValid = TRUE])
             ELSE Answer(k, 400)
          /\ UNCHANGED faults
       \/ /\ Throws
          /\ Answer(k, 400)
    /\ UNCHANGED <<premiumSubscriptions, scheduler, retry, walletSeqno, send, dep,
                   notifications, accounts, poolConfig, dist, work, wd, reg, referrals,
                   users, pool, transactions, now, pc, snap, todo, cur, referrerData,
                   hist>>

\* updateUserPremiumStatus(telegramId, true, expiresAt, '10.5'): the update
\* of the user document, which fails when there is no such document
UnlockUpdateUser(k) ==
    /\ unlock[k].pc = "update"
    /\ \/ /\ users[unlock[k].telegramId].exists
          /\ users' = [users EXCEPT ![unlock[k].telegramId] =
                 [@ EXCEPT !.isPremium = TRUE,
                           !.premiumExpiresAt = unlock[k].expiresAt,
                           !.premiumRate = "10.5"]]
          /\ SetUnlock(k, [unlock[k] EXCEPT !.pc = "log", !.activated = TRUE])
          /\ UNCHANGED faults
       \/ /\ ~users[unlock[k].telegramId].exists
          /\ Answer(k, 500)
          /\ UNCHANGED <<users, faults>>
       \/ /\ Throws
          /\ Answer(k, 500)
          /\ UNCHANGED users
    /\ UNCHANGED <<premiumSubscriptions, scheduler, retry, walletSeqno, send, dep,
                   notifications, accounts, poolConfig, dist, work, wd, reg, referrals,
                   pool, transactions, now, pc, snap, todo, cur, referrerData, hist>>

\* the premium_payment transaction of updateUserPremiumStatus, then the
\* answer of the route
UnlockLog(k) ==
    /\ unlock[k].pc = "log"
    /\ \/ /\ transactions' = AddTransaction(
                 Tx(unlock[k].telegramId, "premium_payment", 2000000000, "completed",
                    "Premium subscription activated", 0))
          /\ Answer(k, 200)
          /\ UNCHANGED faults
       \/ /\ Throws
          /\ Answer(k, 500)
          /\ UNCHANGED transactions
    /\ UNCHANGED <<premiumSubscriptions, scheduler, retry, walletSeqno, send, dep,
                   notifications, accounts, poolConfig, dist, work, wd, reg, referrals,
                   users, pool, now, pc, snap, todo, cur, referrerData, hist>>

\* u1 is premium until time 1, u2 is not, u3 has no document
InitUnlock ==
    /\ users = [ReferrerStakes EXCEPT !["u3"] = NoDoc]
    /\ InitCollections
    /\ now = 0

NextUnlock ==
    \/ Tick
    \/ \E k \in Unlocks, u \in Users, h \in TxHashes : StartUnlock(k, u, h)
    \/ \E k \in Unlocks : UnlockCreateSubscription(k)
    \/ \E k \in Unlocks : UnlockVerify(k)
    \/ \E k \in Unlocks : UnlockUpdateUser(k)
    \/ \E k \in Unlocks : UnlockLog(k)

SpecUnlock == InitUnlock /\ [][NextUnlock]_vars

(***************************************************************************)
(* C35  Premium payment is single-use: the requests that set the premium   *)
(* status of a user with one payment hash are at most one, so a hash       *)
(* serves one account and one activation or extension.                     *)
(***************************************************************************)
\* the requests that wrote isPremium: true on the strength of the hash h
Activations(h) == {k \in Unlocks : unlock[k].activated /\ unlock[k].txHash = h}

C35_PaymentSingleUse ==
    \A h \in TxHashes : Cardinality(Activations(h)) <= 1

\* C35, second part: a request writes isPremium: true only after
\* verifyPremiumPayment returned true for its hash
C35_ActivatedOnlyIfVerified ==
    \A k \in Unlocks :
        unlock[k].activated =>
            unlock[k].isValid /\ VerifyPremiumPayment(unlock[k].txHash, PremiumPrice)

(***************************************************************************)
(* RewardsScheduler.  The scheduler keeps one field, cronJob; node-cron    *)
(* keeps every task it created and runs the callback of each task that is  *)
(* scheduled when a minute matches its expression.                         *)
(***************************************************************************)
Daily == "0 0 * * *"
Testing == "*/5 * * * *"

\* minutes after midnight UTC at which the timer of node-cron is looked at
TriggerTimes == {0, 5, 7}

Matches(expression, t) ==
    IF expression = Daily THEN t = 0 ELSE t % 5 = 0

\* the tasks the scheduler created that node-cron still runs
Scheduled ==
    {i \in 1..Len(scheduler.tasks) : scheduler.tasks[i].status = "scheduled"}

\* if (this.cronJob) this.cronJob.stop()
StopJob(tasks, cronJob) ==
    IF cronJob # 0 THEN [tasks EXCEPT ![cronJob].status = "stopped"] ELSE tasks

\* this.cronJob = cron.schedule(expression, callback), the old job left running
ScheduleBeside(expression, op) ==
    /\ Len(scheduler.tasks) < MaxJobs
    /\ scheduler' = [scheduler EXCEPT
           !.tasks = Append(scheduler.tasks,
                            [expression |-> expression, status |-> "scheduled"]),
           !.cronJob = Len(scheduler.tasks) + 1,
           !.last = op,
           !.fired = {}]

\* stop of the existing job, then this.cronJob = cron.schedule(expression, callback)
Schedule(expression, op) ==
    /\ Len(scheduler.tasks) < MaxJobs
    /\ scheduler' = [scheduler EXCEPT
           !.tasks = Append(StopJob(scheduler.tasks, scheduler.cronJob),
                            [expression |-> expression, status |-> "scheduled"]),
           !.cronJob = Len(scheduler.tasks) + 1,
           !.last = op,
           !.fired = {}]

StartDailyRewards ==
    /\ Schedule(Daily, "startDailyRewards")
    /\ UNCHANGED <<premiumSubscriptions, unlock, retry, walletSeqno, send, dep,
                   notifications, accounts, poolConfig, dist, work, wd, reg, referrals,
                   users, pool, transactions, now, faults, pc, snap, todo, cur,
                   referrerData, hist>>

StartTestingRewards ==
    /\ Schedule(Testing, "startTestingRewards")
    /\ UNCHANGED <<premiumSubscriptions, unlock, retry, walletSeqno, send, dep,
                   notifications, accounts, poolConfig, dist, work, wd, reg, referrals,
                   users, pool, transactions, now, faults, pc, snap, todo, cur,
                   referrerData, hist>>

\* stop(): the field keeps the stopped task
Stop ==
    /\ scheduler' = [scheduler EXCEPT
           !.tasks = StopJob(scheduler.tasks, scheduler.cronJob),
           !.last = "stop",
           !.fired = {}]
    /\ UNCHANGED <<premiumSubscriptions, unlock, retry, walletSeqno, send, dep,
                   notifications, accounts, poolConfig, dist, work, wd, reg, referrals,
                   users, pool, transactions, now, faults, pc, snap, todo, cur,
                   referrerData, hist>>

\* The minute t comes: node-cron calls the callback of every scheduled task
\* whose expression matches, and each callback starts distributeRewards.
Trigger(t) ==
    /\ scheduler.triggers < MaxTriggers
    /\ scheduler' = [scheduler EXCEPT
           !.fired = {i \in Scheduled : Matches(scheduler.tasks[i].expression, t)},
           !.last = "trigger",
           !.triggers = @ + 1]
    /\ UNCHANGED <<premiumSubscriptions, unlock, retry, walletSeqno, send, dep,
                   notifications, accounts, poolConfig, dist, work, wd, reg, referrals,
                   users, pool, transactions, now, faults, pc, snap, todo, cur,
                   referrerData, hist>>

NextScheduler ==
    \/ StartDailyRewards
    \/ StartTestingRewards
    \/ Stop
    \/ \E t \in TriggerTimes : Trigger(t)

SpecScheduler == InitSend /\ [][NextScheduler]_vars

(***************************************************************************)
(* C36  Single active reward job: after any sequence of startDailyRewards, *)
(* startTestingRewards and stop on one RewardsScheduler at most one of the *)
(* cron jobs it created is scheduled, after stop none is, and one trigger  *)
(* time starts at most one run.                                            *)
(***************************************************************************)
C36_SingleActiveJob ==
    /\ Cardinality(Scheduled) <= 1
    /\ scheduler.last = "stop" => Scheduled = {}
    /\ Cardinality(scheduler.fired) <= 1

\* both schedules were started, and midnight started the run of the one
\* that is the current job
C36_Witness ==
    /\ \E i \in 1..Len(scheduler.tasks) :
           /\ scheduler.tasks[i].status = "stopped"
           /\ scheduler.tasks[i].expression = Testing
    /\ scheduler.last = "trigger"
    /\ scheduler.fired = {scheduler.cronJob}
    /\ scheduler.tasks[scheduler.cronJob].expression = Daily

(***************************************************************************)
(* retryTransaction(operation, maxRetries) of routes.ts: a for loop over   *)
(* attempt = 1..maxRetries that returns what operation returns, rethrows   *)
(* its error at the last attempt and otherwise waits 2^attempt seconds.    *)
(***************************************************************************)
\* what an invocation of operation may throw
Errors == {"timeout", "rejected", "network"}
AllFailed == "All transaction attempts failed"

\* Math.pow(2, attempt) * 1000
RECURSIVE Backoff(_)
Backoff(attempt) == IF attempt = 0 THEN 1000 ELSE 2 * Backoff(attempt - 1)

\* retryTransaction is called: attempt = 1
StartRetry(maxRetries) ==
    /\ retry.pc = "idle"
    /\ retry' = [NoRetry EXCEPT !.pc = "for", !.maxRetries = maxRetries, !.attempt = 1]
    /\ UNCHANGED <<premiumSubscriptions, unlock, scheduler, walletSeqno, send, dep,
                   notifications, accounts, poolConfig, dist, work, wd, reg, referrals,
                   users, pool, transactions, now, faults, pc, snap, todo, cur,
                   referrerData, hist>>

\* attempt <= maxRetries; after the loop, throw new Error(AllFailed)
RetryFor ==
    /\ retry.pc = "for"
    /\ \/ /\ retry.attempt <= retry.maxRetries
          /\ retry' = [retry EXCEPT !.pc = "call"]
       \/ /\ retry.attempt > retry.maxRetries
          /\ retry' = [retry EXCEPT !.pc = "thrown", !.result = AllFailed]
    /\ UNCHANGED <<premiumSubscriptions, unlock, scheduler, walletSeqno, send, dep,
                   notifications, accounts, poolConfig, dist, work, wd, reg, referrals,
                   users, pool, transactions, now, faults, pc, snap, todo, cur,
                   referrerData, hist>>

\* return await operation() with a catch that never rethrows
RetryCallNoRethrow ==
    /\ retry.pc = "call"
    /\ \/ retry' = [retry EXCEPT !.pc = "returned", !.calls = @ + 1,
                                 !.result = "txHash"]
       \/ \E e \in Errors :
              retry' = [retry EXCEPT !.pc = "backoff", !.calls = @ + 1,
                                     !.errors = Append(@, e),
                                     !.delay = Backoff(retry.attempt)]
    /\ UNCHANGED <<premiumSubscriptions, unlock, scheduler, walletSeqno, send, dep,
                   notifications, accounts, poolConfig, dist, work, wd, reg, referrals,
                   users, pool, transactions, now, faults, pc, snap, todo, cur,
                   referrerData, hist>>

\* return await operation(); in the catch, throw error when
\* attempt === maxRetries, else start the timer of the backoff
RetryCall ==
    /\ retry.pc = "call"
    /\ \/ retry' = [retry EXCEPT !.pc = "returned", !.calls = @ + 1,
                                 !.result = "txHash"]
       \/ \E e \in Errors :
              IF retry.attempt = retry.maxRetries
              THEN retry' = [retry EXCEPT !.pc = "thrown", !.calls = @ + 1,
                                          !.errors = Append(@, e), !.result = e]
              ELSE retry' = [retry EXCEPT !.pc = "backoff", !.calls = @ + 1,
                                          !.errors = Append(@, e),
                                          !.delay = Backoff(retry.attempt)]
    /\ UNCHANGED <<premiumSubscriptions, unlock, scheduler, walletSeqno, send, dep,
                   notifications, accounts, poolConfig, dist, work, wd, reg, referrals,
                   users, pool, transactions, now, faults, pc, snap, todo, cur,
                   referrerData, hist>>

\* the timer fires: attempt++
RetryBackoff ==
    /\ retry.pc = "backoff"
    /\ retry' = [retry EXCEPT !.pc = "for", !.attempt = @ + 1]
    /\ UNCHANGED <<premiumSubscriptions, unlock, scheduler, walletSeqno, send, dep,
                   notifications, accounts, poolConfig, dist, work, wd, reg, referrals,
                   users, pool, transactions, now, faults, pc, snap, todo, cur,
                   referrerData, hist>>

NextRetry ==
    \/ \E maxRetries \in 0..MaxRetries : StartRetry(maxRetries)
    \/ RetryFor
    \/ RetryCall
    \/ RetryBackoff

SpecRetry == InitSend /\ [][NextRetry]_vars

(***************************************************************************)
(* C37  Bounded retry: retryTransaction invokes operation at most          *)
(* maxRetries times; it returns the result of the first invocation that    *)
(* succeeds, which is its last invocation; and after maxRetries failures   *)
(* in a row it throws the error of the last of them.                       *)
(***************************************************************************)
C37_BoundedRetry ==
    /\ retry.calls <= retry.maxRetries
    /\ retry.pc = "returned" =>
           /\ retry.result = "txHash"
           /\ retry.calls = Len(retry.errors) + 1
    /\ retry.pc = "thrown" =>
           /\ retry.calls = retry.maxRetries
           /\ Len(retry.errors) = retry.maxRetries
           /\ retry.maxRetries > 0 => retry.result = retry.errors[retry.maxRetries]

\* two failures, a wait of 4 seconds and a third invocation that succeeded,
\* or a third failure that was rethrown
C37_Witness ==
    /\ retry.maxRetries = 3
    /\ retry.calls = 3
    /\ retry.delay = 4000
    /\ \/ retry.pc = "returned"
       \/ retry.pc = "thrown" /\ retry.result = retry.errors[3]

====
